---- MODULE Spec2Model ----
(***************************************************************************)
(* Stroll: procedural city, collision field, player controller, placers,   *)
(* collectibles, walkers and start-up, modelled from the JavaScript        *)
(* sources.                                                                *)
(*                                                                         *)
(* Lengths are integers counted in sixths of a world unit (Scale): halves  *)
(* are needed for the collision padding 1.5 and thirds for blocks that are *)
(* split into three buildings.  A Math.random() draw is modelled by the    *)
(* numerator of a fraction whose denominator is named next to its use.     *)
(***************************************************************************)
EXTENDS Integers, Sequences, FiniteSets, TLC

VARIABLES
    buildings,   \* city.js `buildings`: the collision field
    player,      \* controls `player`: [x, z]
    attempt,     \* the input of the last resolved frame: [p0, d] or NoAttempt
    frames,      \* the number of frames resolved so far
    query,       \* the last collision query: [impl, x, z, padding, result] or NoQuery
    placement,   \* generation: the placer running, its loop counters, what it placed
    collect,     \* collectibles.js `collectibles` with the score and journal they feed
    walker,      \* npcs.js: one walker of `npcs`
    boot,        \* the entry point: how far init has run and what it has started
    windowTransforms, \* city.js `windowTransforms`, with the building being fitted
    modes,       \* photo mode, meditation and the view angles of the controls
    ambience,    \* the day/night cycle phase and the audio module's state
    hud,         \* the toast queue and the intro sequence of the interface
    achievements \* the unlocked achievements with the events and score they caused

vars == <<buildings, player, attempt, frames, query, placement, collect, walker, boot,
          windowTransforms, modes, ambience, hud, achievements>>

playerVars == <<player, attempt, frames>>

----------------------------------------------------------------------------
(* Units *)

Scale == 2 * 3

Abs(n) == IF n < 0 THEN -n ELSE n
Max(a, b) == IF a > b THEN a ELSE b
Min(a, b) == IF a < b THEN a ELSE b

----------------------------------------------------------------------------
(* config.js *)

CITY_SIZE == 200
BLOCK_SIZE == 20
STREET_WIDTH == 8
CELL_SIZE == BLOCK_SIZE + STREET_WIDTH
HALF_CITY == CITY_SIZE \div 2
PARK_EXCLUSION == 25
CITY_BOUND_MARGIN == 2
\* COLLISION_PADDING = 1.5, in model units
COLLISION_PADDING == (3 * Scale) \div 2
\* the default padding of isInsideBuilding(x, z, padding = 1), in model units
DEFAULT_PADDING == 1 * Scale
\* WALK_SPEED = 0.08, in hundredths
WALK_SPEED_E2 == 8
\* the frame delta cap of animate, Math.min(clock.getDelta(), 0.1), in tenths
DELTA_CAP_E1 == 1
\* speed = WALK_SPEED * delta * 60 at the cap, in thousandths of a model unit
MaxSpeedE3 == WALK_SPEED_E2 * DELTA_CAP_E1 * 60 * Scale

----------------------------------------------------------------------------
(* city.js: generateBlocks / generateBlock / createBuilding *)

\* the values gx (and gz) takes in `for (gx = -HALF_CITY; gx < HALF_CITY; gx += CELL_SIZE)`
GridCoords == { -HALF_CITY + k * CELL_SIZE : k \in 0..((CITY_SIZE - 1) \div CELL_SIZE) }

\* the park test of generateBlocks
InPark(gx, gz) == Abs(gx) < PARK_EXCLUSION /\ Abs(gz) < PARK_EXCLUSION

\* One block of n buildings; rw and rd hold the draws of building i at i + 1.
\* rw[i + 1] \in 0..6 is the width draw rw/7, so that 0.6 + 0.35 * rw/7 =
\* (60 + 5 rw)/100; rd[i + 1] \in 0..3 is the depth draw rd/4, so that
\* 0.5 + 0.4 * rd/4 = (50 + 10 rd)/100.  bx, bz in world units.
generateBlock(bx, bz, n, rw, rd) ==
    LET subSize == (BLOCK_SIZE * Scale) \div n
    IN  { [ x     |-> bx * Scale + i * subSize + subSize \div 2,
            z     |-> bz * Scale + (BLOCK_SIZE * Scale) \div 2,
            width |-> (subSize * (60 + 5 * rw[i + 1])) \div 100,
            depth |-> (BLOCK_SIZE * Scale * (50 + 10 * rd[i + 1])) \div 100 ]
          : i \in 0..(n - 1) }

\* generateBlocks: `built` is the set of cells the random skip lets through,
\* shape[c] the draws of the block of cell c.
generateBlocks(built, shape) ==
    UNION { IF InPark(c[1], c[2])
            THEN {}
            ELSE generateBlock(c[1] + STREET_WIDTH \div 2, c[2] + STREET_WIDTH \div 2,
                               shape[c].n, shape[c].rw, shape[c].rd)
            : c \in built }

----------------------------------------------------------------------------
(* city.js: isInsideBuilding.  Doubled so that width / 2 stays an integer. *)

isInsideBuilding(x, z, padding) ==
    \E b \in buildings :
        /\ 2 * x > 2 * b.x - b.width - 2 * padding
        /\ 2 * x < 2 * b.x + b.width + 2 * padding
        /\ 2 * z > 2 * b.z - b.depth - 2 * padding
        /\ 2 * z < 2 * b.z + b.depth + 2 * padding

----------------------------------------------------------------------------
(* controls: updatePlayer *)

\* A frame's input is the world-space displacement the keys, the joystick,
\* the yaw and the delta produce:
\*   d.x = (moveX * cosYaw + moveZ * sinYaw) * speed
\*   d.z = (-moveX * sinYaw + moveZ * cosYaw) * speed
\* with (moveX, moveZ) of length 1 or 0, so |d| <= speed <= 0.48.
WithinSpeed(d) == (d.x * d.x + d.z * d.z) * 1000 * 1000 <= MaxSpeedE3 * MaxSpeedE3

\* main.js / the oldest monolith: `padding = padding || 1;` then the same loop
isInsideBuildingLegacy(x, z, padding) ==
    LET pad == IF padding = 0 THEN 1 * Scale ELSE padding
    IN  \E b \in buildings :
            /\ 2 * x > 2 * b.x - b.width - 2 * pad
            /\ 2 * x < 2 * b.x + b.width + 2 * pad
            /\ 2 * z > 2 * b.z - b.depth - 2 * pad
            /\ 2 * z < 2 * b.z + b.depth + 2 * pad

\* slide with the X-only move applied without its collision query
slideUncheckedX(p, d) ==
    LET newX == p.x + d.x
        newZ == p.z + d.z
    IN  IF ~isInsideBuilding(newX, newZ, COLLISION_PADDING) THEN [x |-> newX, z |-> newZ]
        ELSE [x |-> newX, z |-> p.z]

\* slide with the Z-only move applied without its collision query
slideUncheckedZ(p, d) ==
    LET newX == p.x + d.x
        newZ == p.z + d.z
    IN  IF ~isInsideBuilding(newX, newZ, COLLISION_PADDING) THEN [x |-> newX, z |-> newZ]
        ELSE IF ~isInsideBuilding(newX, p.z, COLLISION_PADDING) THEN [x |-> newX, z |-> p.z]
        ELSE [x |-> p.x, z |-> newZ]

\* the sliding resolution trying the Z-only move before the X-only move
slideZFirst(p, d) ==
    LET newX == p.x + d.x
        newZ == p.z + d.z
    IN  IF ~isInsideBuilding(newX, newZ, COLLISION_PADDING) THEN [x |-> newX, z |-> newZ]
        ELSE IF ~isInsideBuilding(p.x, newZ, COLLISION_PADDING) THEN [x |-> p.x, z |-> newZ]
        ELSE IF ~isInsideBuilding(newX, p.z, COLLISION_PADDING) THEN [x |-> newX, z |-> p.z]
        ELSE p

\* the sliding collision resolution: the position before the clamp
slide(p, d) ==
    LET newX == p.x + d.x
        newZ == p.z + d.z
    IN  IF ~isInsideBuilding(newX, newZ, COLLISION_PADDING) THEN [x |-> newX, z |-> newZ]
        ELSE IF ~isInsideBuilding(newX, p.z, COLLISION_PADDING) THEN [x |-> newX, z |-> p.z]
        ELSE IF ~isInsideBuilding(p.x, newZ, COLLISION_PADDING) THEN [x |-> p.x, z |-> newZ]
        ELSE p

bound == (CITY_SIZE \div 2 - CITY_BOUND_MARGIN) * Scale

\* clamp with the upper limit forgotten
clampLowerOnly(v) == Max(-bound, v)

\* Math.max(-bound, Math.min(bound, v))
clamp(v) == Max(-bound, Min(bound, v))

clampToBounds(p) == [x |-> clamp(p.x), z |-> clamp(p.z)]

updatePlayer(p, d) == clampToBounds(slide(p, d))

----------------------------------------------------------------------------
(* Bounds of the model *)

NoAttempt == [p0 |-> <<>>, d |-> <<>>]

\* the parts of the program a specification leaves out are at rest
NoPlacement == [pc |-> "idle"]
NoCollect == [pc |-> "idle"]
NoWalker == [pc |-> "idle"]
NoBoot == [pc |-> "idle"]
NoWindows == [pc |-> "idle"]
NoModes == [pc |-> "idle"]
NoAmbience == [pc |-> "idle"]
NoHud == [pc |-> "idle"]
NoAchievements == [pc |-> "idle"]

\* no collision query has been made
NoQuery == [impl |-> "none", x |-> 0, z |-> 0, padding |-> 0, result |-> FALSE]

\* the cells of the modelled cities that the random skip lets through (two of
\* them lie in the park and are skipped by the park test)
BuiltCells ==
    { <<-44, -16>>, <<-16, -44>>, <<12, 40>>, <<40, 12>>, <<40, 40>>, <<-44, -44>>,
      <<68, 68>>, <<-100, -100>>, <<96, 12>>, <<-100, 12>>, <<12, -100>>,
      <<-16, -16>>, <<12, -16>> }

\* the draws of a block: one, two or three buildings, narrow or wide, shallow
\* or deep
BlockShapes ==
    << [n |-> 1, rw |-> <<6>>, rd |-> <<3>>],
       [n |-> 2, rw |-> <<6, 6>>, rd |-> <<0, 3>>],
       [n |-> 3, rw |-> <<6, 0, 3>>, rd |-> <<2, 0, 1>>] >>

\* city k gives the cell in column i, row j the shape (i + j + k) mod 3
NumCities == 2
CellIndex(g) == (g + HALF_CITY) \div CELL_SIZE
ShapeOfCell(c, k) == BlockShapes[((CellIndex(c[1]) + CellIndex(c[2]) + k) % 3) + 1]
Cities ==
    { generateBlocks(BuiltCells, [c \in BuiltCells |-> ShapeOfCell(c, k)]) :
        k \in 0..(NumCities - 1) }

\* the step of the walk: a third of a world unit along an axis or both
StepLen == Scale \div 3
WalkMoves == { d \in [x : {-StepLen, 0, StepLen}, z : {-StepLen, 0, StepLen}] : WithinSpeed(d) }

\* displacements of a single resolved frame: every sixth of a unit within the cap
FineMoves == { d \in [x : -StepLen..StepLen, z : -StepLen..StepLen] : WithinSpeed(d) }

\* positions a resolved frame starts from: the spawn, the inner corner of two
\* neighbouring buildings of cell (40, 12), points next to the world bound
StartPositions ==
    { [x |-> 0, z |-> 0], [x |-> 318, z |-> 116], [x |-> 316, z |-> 98],
      [x |-> 256, z |-> 150], [x |-> bound - StepLen, z |-> 0],
      [x |-> bound - StepLen, z |-> bound], [x |-> -bound, z |-> StepLen - bound],
      [x |-> 0, z |-> -bound] }

\* the number of frames resolved from a start position
MaxFrames == 2

----------------------------------------------------------------------------
(* The walk: the city is generated, the player spawns at (0, 0), frames run *)

InitPlayer ==
    /\ buildings \in Cities
    /\ player = [x |-> 0, z |-> 0]
    /\ attempt = NoAttempt
    /\ frames = 0
    /\ hud = NoHud
    /\ achievements = NoAchievements
    /\ windowTransforms = NoWindows
    /\ modes = NoModes
    /\ ambience = NoAmbience
    /\ query = NoQuery
    /\ placement = NoPlacement
    /\ collect = NoCollect
    /\ walker = NoWalker
    /\ boot = NoBoot

Frame ==
    /\ \E d \in WalkMoves : player' = updatePlayer(player, d)
    /\ UNCHANGED <<buildings, attempt, frames, query, placement, collect, walker, boot, windowTransforms, modes, ambience, hud, achievements>>

NextPlayer == Frame

SpecPlayer == InitPlayer /\ [][NextPlayer]_vars

----------------------------------------------------------------------------
(* One resolved frame at a time, the input kept beside the outcome *)

InitResolve ==
    /\ buildings \in Cities
    /\ player \in { p \in StartPositions : ~isInsideBuilding(p.x, p.z, COLLISION_PADDING) }
    /\ attempt = NoAttempt
    /\ frames = 0
    /\ hud = NoHud
    /\ achievements = NoAchievements
    /\ windowTransforms = NoWindows
    /\ modes = NoModes
    /\ ambience = NoAmbience
    /\ query = NoQuery
    /\ placement = NoPlacement
    /\ collect = NoCollect
    /\ walker = NoWalker
    /\ boot = NoBoot

Resolve ==
    /\ frames < MaxFrames
    /\ \E d \in FineMoves :
         /\ player' = updatePlayer(player, d)
         /\ attempt' = [p0 |-> player, d |-> d]
    /\ frames' = frames + 1
    /\ UNCHANGED <<buildings, query, placement, collect, walker, boot, windowTransforms, modes, ambience, hud, achievements>>

NextResolve == Resolve

SpecResolve == InitResolve /\ [][NextResolve]_vars

----------------------------------------------------------------------------
(* The collision query on its own: a city or no building at all, a point    *)
(* and a padding, asked of the module's query and of the monoliths' query   *)

\* points across the block of cell (12, 40) and the street on either side
QueryPoints == [x : 84..228, z : {250, 258, 261, 264, 324, 384, 387, 392}]

\* paddings 0, 0.5, 1, 1.5 and 2
QueryPaddings == { (k * Scale) \div 2 : k \in 0..4 }

\* the arguments of a call that has not been answered yet
Pending(pt, pad) ==
    [impl |-> "pending", x |-> pt.x, z |-> pt.z, padding |-> pad, result |-> FALSE]

InitQuery ==
    /\ buildings \in Cities \cup {{}}
    /\ player = [x |-> 0, z |-> 0]
    /\ attempt = NoAttempt
    /\ frames = 0
    /\ hud = NoHud
    /\ achievements = NoAchievements
    /\ windowTransforms = NoWindows
    /\ modes = NoModes
    /\ ambience = NoAmbience
    /\ query \in { Pending(pt, pad) : pt \in QueryPoints, pad \in QueryPaddings }
    /\ placement = NoPlacement
    /\ collect = NoCollect
    /\ walker = NoWalker
    /\ boot = NoBoot

\* city.js answers the call
QueryModule ==
    /\ query.impl = "pending"
    /\ query' = [query EXCEPT !.impl = "city.js",
                              !.result = isInsideBuilding(query.x, query.z, query.padding)]
    /\ UNCHANGED <<buildings, playerVars, placement, collect, walker, boot, windowTransforms, modes, ambience, hud, achievements>>

\* the monolith's copy answers the call
QueryLegacy ==
    /\ query.impl = "pending"
    /\ query' = [query EXCEPT !.impl = "main.js",
                              !.result = isInsideBuildingLegacy(query.x, query.z, query.padding)]
    /\ UNCHANGED <<buildings, playerVars, placement, collect, walker, boot, windowTransforms, modes, ambience, hud, achievements>>

NextQuery == QueryModule \/ QueryLegacy

SpecQuery == InitQuery /\ [][NextQuery]_vars

----------------------------------------------------------------------------
(* Generation: generateBlocks registers the buildings, then the rejection-  *)
(* sampling placers run one after the other: street trees and benches       *)
(* (city.js), collectibles (collectibles.js), flowers (interactive.js).     *)
(* One step is one pass of a placer's sampling loop; the step that leaves   *)
(* the loop also places or drops the instance.                              *)

\* `attempts < 20` of the do-while placers
RETRY_CAP == 20
\* `attempt < 30` of findValidPosition
FIND_CAP == 30
\* isInsideBuilding(x, z, 2) of findValidPosition and createFlowers
WIDE_PADDING == 2 * Scale

\* the padding each placer queries with
PlacerPadding(kind) ==
    IF kind \in {"tree", "bench"} THEN DEFAULT_PADDING ELSE WIDE_PADDING

\* the instances each placer is asked for in the model
MaxInstances == 2

\* candidates (Math.random() - 0.5) * range can give every placer: inside the
\* block of cell (-44, -16), one unit off its east wall, the park
PlacerPoints == { [x |-> -180, z |-> -12], [x |-> -120, z |-> -12], [x |-> 0, z |-> 0] }

NoLast == [kind |-> "none", draws |-> 0, sawFree |-> FALSE, outcome |-> "none"]

StartPlacement ==
    [ pc |-> "blocks", i |-> 0, attempts |-> 0, sawFree |-> FALSE,
      placed |-> {}, count |-> [k \in {} |-> 0], dropped |-> [k \in {} |-> 0],
      last |-> NoLast ]

\* the placer after `kind`, in the order init calls them
NextPlacer(kind) ==
    IF kind = "tree" THEN "bench"
    ELSE IF kind = "bench" THEN "collectible"
    ELSE IF kind = "collectible" THEN "flower"
    ELSE "done"

\* `while (isInsideBuilding(x, z) && attempts < 20)`: the do-while goes round again
retries(x, z, padding, attempts) ==
    isInsideBuilding(x, z, padding) /\ attempts < RETRY_CAP

\* `if (attempts < 20)` keeps the candidate the do-while placers leave the loop
\* with, with one comparison too many
keepsUpToCap(attempts) == attempts <= RETRY_CAP

\* `if (attempts < 20)` (`if (attempts >= 20) continue;` in createFlowers)
keeps(attempts) == attempts < RETRY_CAP

\* the for loop of a placer moves on to its next instance, or the next placer starts
advance(pl, kind) ==
    IF pl.i + 1 < MaxInstances
    THEN [pl EXCEPT !.i = pl.i + 1, !.attempts = 0, !.sawFree = FALSE]
    ELSE [pl EXCEPT !.pc = NextPlacer(kind), !.i = 0, !.attempts = 0, !.sawFree = FALSE]

\* the instance is placed at c after `draws` candidates
place(pl, kind, c, draws, free) ==
    advance([pl EXCEPT !.placed = @ \cup {[kind |-> kind, x |-> c.x, z |-> c.z]},
                       !.count[kind] = @ + 1,
                       !.last = [kind |-> kind, draws |-> draws, sawFree |-> free,
                                 outcome |-> "placed"]], kind)

\* the instance is dropped after `draws` candidates
drop(pl, kind, draws, free) ==
    advance([pl EXCEPT !.dropped[kind] = @ + 1,
                       !.last = [kind |-> kind, draws |-> draws, sawFree |-> free,
                                 outcome |-> "dropped"]], kind)

\* one pass of `do { sample; attempts++ } while (blocked && attempts < 20)`
\* and, when the loop ends, the `if (attempts < 20)` after it
doWhilePass(pl, kind, c) ==
    LET attempts == pl.attempts + 1
        free     == pl.sawFree \/ ~isInsideBuilding(c.x, c.z, PlacerPadding(kind))
    IN  IF retries(c.x, c.z, PlacerPadding(kind), attempts)
        THEN [pl EXCEPT !.attempts = attempts, !.sawFree = free]
        ELSE IF keeps(attempts) THEN place(pl, kind, c, attempts, free)
        ELSE drop(pl, kind, attempts, free)

\* one pass of findValidPosition's `for (attempt = 0; attempt < 30; attempt++)`
findValidPosition(pl, kind, c) ==
    LET attempts == pl.attempts + 1
    IN  IF ~isInsideBuilding(c.x, c.z, WIDE_PADDING) THEN place(pl, kind, c, attempts, TRUE)
        ELSE IF attempts < FIND_CAP THEN [pl EXCEPT !.attempts = attempts]
        ELSE drop(pl, kind, attempts, FALSE)

InitPlacement ==
    /\ buildings = {}
    /\ player = [x |-> 0, z |-> 0]
    /\ attempt = NoAttempt
    /\ frames = 0
    /\ hud = NoHud
    /\ achievements = NoAchievements
    /\ windowTransforms = NoWindows
    /\ modes = NoModes
    /\ ambience = NoAmbience
    /\ query = NoQuery
    /\ placement = StartPlacement
    /\ collect = NoCollect
    /\ walker = NoWalker
    /\ boot = NoBoot

GenerateBlocks ==
    /\ placement.pc = "blocks"
    /\ buildings' \in Cities
    /\ placement' = [placement EXCEPT !.pc = "tree",
                                      !.count = [k \in {"tree", "bench", "collectible", "flower"} |-> 0],
                                      !.dropped = [k \in {"tree", "bench", "collectible", "flower"} |-> 0]]
    /\ UNCHANGED <<playerVars, query, collect, walker, boot, windowTransforms, modes, ambience, hud, achievements>>

GenerateTrees ==
    /\ placement.pc = "tree"
    /\ \E c \in PlacerPoints : placement' = doWhilePass(placement, "tree", c)
    /\ UNCHANGED <<buildings, playerVars, query, collect, walker, boot, windowTransforms, modes, ambience, hud, achievements>>

GenerateBenches ==
    /\ placement.pc = "bench"
    /\ \E c \in PlacerPoints : placement' = doWhilePass(placement, "bench", c)
    /\ UNCHANGED <<buildings, playerVars, query, collect, walker, boot, windowTransforms, modes, ambience, hud, achievements>>

CreateCollectibles ==
    /\ placement.pc = "collectible"
    /\ \E c \in PlacerPoints : placement' = findValidPosition(placement, "collectible", c)
    /\ UNCHANGED <<buildings, playerVars, query, collect, walker, boot, windowTransforms, modes, ambience, hud, achievements>>

CreateFlowers ==
    /\ placement.pc = "flower"
    /\ \E c \in PlacerPoints : placement' = doWhilePass(placement, "flower", c)
    /\ UNCHANGED <<buildings, playerVars, query, collect, walker, boot, windowTransforms, modes, ambience, hud, achievements>>

NextPlacement ==
    GenerateBlocks \/ GenerateTrees \/ GenerateBenches \/ CreateCollectibles \/ CreateFlowers

SpecPlacement == InitPlacement /\ [][NextPlacement]_vars

----------------------------------------------------------------------------
(* Collecting: every frame of normal play moves the player and runs         *)
(* updateCollectibles; the frame reads `.justCollected` of what it returns, *)
(* which throws when nothing was picked up, and otherwise goes on to        *)
(* updateChallenges.  `reported` counts, per item, the frames whose         *)
(* updateCollectibles returned it.                                          *)

\* PICKUP_RADIUS = 3.5, in model units
PICKUP_RADIUS == (7 * Scale) \div 2
\* WAYPOINT_DISCOVER_DISTANCE = 5, in model units
WAYPOINT_DISCOVER_DISTANCE == 5 * Scale

\* WAYPOINT_DEFS, in world units
WAYPOINT_DEFS ==
    << <<0, 0>>, <<0, -70>>, <<0, 70>>, <<70, 0>>, <<-70, 0>>,
       <<-50, -50>>, <<50, 50>>, <<-30, 40>>, <<40, -30>>, <<-60, -60>> >>

\* `dist < radius` for Math.sqrt(dx * dx + dz * dz)
within(ax, az, p, radius) ==
    (ax - p.x) * (ax - p.x) + (az - p.z) * (az - p.z) < radius * radius

\* the pickup test of updateCollectibles without its `if (c.collected) return;`
picksUpCollected(c, p) == within(c.x, c.z, p, PICKUP_RADIUS)

\* `if (c.collected) return;` ... `if (dist < PICKUP_RADIUS)`
picksUp(c, p) == ~c.collected /\ within(c.x, c.z, p, PICKUP_RADIUS)

\* updateCollectibles with `c.collected = dist < PICKUP_RADIUS` for the flag: an
\* item out of range is no longer collected
updateCollectiblesInRange(cs, p) ==
    LET hit == { i \in DOMAIN cs.items : picksUp(cs.items[i], p) }
    IN  [cs EXCEPT
            !.items = [i \in DOMAIN cs.items |->
                          [cs.items[i] EXCEPT
                              !.collected = within(cs.items[i].x, cs.items[i].z, p, PICKUP_RADIUS)]],
            !.spawned = [i \in DOMAIN cs.items |->
                          IF i \in hit THEN cs.spawned[i] + 1 ELSE cs.spawned[i]],
            !.flagged = hit,
            !.reported = [i \in DOMAIN cs.items |->
                          IF hit # {} /\ i = (CHOOSE k \in hit : \A j \in hit : j <= k)
                          THEN cs.reported[i] + 1 ELSE cs.reported[i]],
            !.justCollected = IF hit = {} THEN 0
                              ELSE CHOOSE i \in hit : \A j \in hit : j <= i]

\* updateCollectibles: every item picked up is flagged and spawns its particles;
\* justCollected is overwritten by each, so the last in array order is returned
\* (0 stands for null)
updateCollectibles(cs, p) ==
    LET hit == { i \in DOMAIN cs.items : picksUp(cs.items[i], p) }
    IN  [cs EXCEPT
            !.items = [i \in DOMAIN cs.items |->
                          IF i \in hit THEN [cs.items[i] EXCEPT !.collected = TRUE]
                          ELSE cs.items[i]],
            !.spawned = [i \in DOMAIN cs.items |->
                          IF i \in hit THEN cs.spawned[i] + 1 ELSE cs.spawned[i]],
            !.flagged = hit,
            !.reported = [i \in DOMAIN cs.items |->
                          IF hit # {} /\ i = (CHOOSE k \in hit : \A j \in hit : j <= k)
                          THEN cs.reported[i] + 1 ELSE cs.reported[i]],
            !.justCollected = IF hit = {} THEN 0
                              ELSE CHOOSE i \in hit : \A j \in hit : j <= i]

\* the waypoint loop of updateChallenges: every undiscovered waypoint in range
\* is flagged, journalled and announced inside the loop
updateChallenges(cs, p) ==
    LET hit == { w \in DOMAIN WAYPOINT_DEFS :
                    /\ w \notin cs.discovered
                    /\ within(WAYPOINT_DEFS[w][1] * Scale, WAYPOINT_DEFS[w][2] * Scale,
                              p, WAYPOINT_DISCOVER_DISTANCE) }
    IN  [cs EXCEPT !.discovered = @ \cup hit,
                   !.wpFlagged = hit,
                   !.announced = [w \in DOMAIN WAYPOINT_DEFS |->
                                     IF w \in hit THEN cs.announced[w] + 1 ELSE cs.announced[w]]]

\* animate() from updateCollectibles on: `collectResult.justCollected` is read
\* of the returned item; of null it throws, and the frame ends there, before
\* updateChallenges
collectAndChallenge(cs, p) ==
    LET uc == updateCollectibles(cs, p)
    IN  IF uc.justCollected = 0
        THEN [uc EXCEPT !.wpFlagged = {}, !.threw = TRUE]
        ELSE [updateChallenges(uc, p) EXCEPT !.threw = FALSE]

\* the collectibles createCollectibles has placed: two side by side east of the
\* spawn and one further on, or three in a row
ItemLayouts ==
    { << [x |-> 60, z |-> 12, type |-> "orb", collected |-> FALSE],
         [x |-> 60, z |-> -12, type |-> "crystal", collected |-> FALSE],
         [x |-> 120, z |-> 0, type |-> "flower", collected |-> FALSE] >>,
      << [x |-> 36, z |-> 0, type |-> "orb", collected |-> FALSE],
         [x |-> 90, z |-> 0, type |-> "crystal", collected |-> FALSE],
         [x |-> -60, z |-> 6, type |-> "flower", collected |-> FALSE] >> }

StartCollect(items) ==
    [ items |-> items,
      spawned |-> [i \in DOMAIN items |-> 0],
      flagged |-> {},
      justCollected |-> 0,
      reported |-> [i \in DOMAIN items |-> 0],
      discovered |-> {},
      wpFlagged |-> {},
      threw |-> FALSE,
      announced |-> [w \in DOMAIN WAYPOINT_DEFS |-> 0] ]

\* the walk of this specification keeps to the street through the spawn
AxisMoves == { d \in WalkMoves : d.z = 0 }

InitCollect ==
    /\ buildings \in Cities
    /\ player = [x |-> 0, z |-> 0]
    /\ attempt = NoAttempt
    /\ frames = 0
    /\ hud = NoHud
    /\ achievements = NoAchievements
    /\ windowTransforms = NoWindows
    /\ modes = NoModes
    /\ ambience = NoAmbience
    /\ query = NoQuery
    /\ placement = NoPlacement
    /\ collect \in { StartCollect(items) : items \in ItemLayouts }
    /\ walker = NoWalker
    /\ boot = NoBoot

CollectFrame ==
    /\ \E d \in AxisMoves : player' = updatePlayer(player, d)
    /\ collect' = collectAndChallenge(collect, player')
    /\ UNCHANGED <<buildings, attempt, frames, query, placement, walker, boot, windowTransforms, modes, ambience, hud, achievements>>

NextCollect == CollectFrame

SpecCollect == InitCollect /\ [][NextCollect]_vars

----------------------------------------------------------------------------
(* Walkers: updateNPCs for one entry of `npcs`.  progress is counted in     *)
(* twentieths; a position is kept in twentieths of a model unit, so that    *)
(* from + (to - from) * progress needs no division.                         *)

ProgressDen == 2 * 10
NPC_CULL_DISTANCE == 80

\* npc.speed * delta * 60 in twentieths: speed in [0.015, 0.03), delta up to 0.1
ProgressSteps == {1, 2, 3}

\* paths of NPC_PATH_MIN_POINTS points, in model units: a square around the
\* spawn, and a loop that leaves the cull radius of a player at the spawn
WalkerPaths ==
    { << [x |-> 0, z |-> 0], [x |-> 60, z |-> 0], [x |-> 60, z |-> 60], [x |-> 0, z |-> 60] >>,
      << [x |-> 468, z |-> 0], [x |-> 492, z |-> 0], [x |-> 492, z |-> 30], [x |-> 468, z |-> 30] >> }

\* from + (to - from) * progress
lerp(from, to, progress) ==
    [ x |-> from.x * ProgressDen + (to.x - from.x) * progress,
      z |-> from.z * ProgressDen + (to.z - from.z) * progress ]

\* npcs.push({ mesh at path[0], path, pathIndex: 0, progress: 0 })
createNPC(path) ==
    [ path |-> path, pathIndex |-> 0, progress |-> 0,
      position |-> lerp(path[1], path[1], 0), visible |-> TRUE, updates |-> 0,
      resumed |-> FALSE ]      \* resumed: the last update showed a hidden walker again

\* `distSq > NPC_CULL_DISTANCE * NPC_CULL_DISTANCE`
culled(npc, p) ==
    LET dx == npc.position.x - p.x * ProgressDen
        dz == npc.position.z - p.z * ProgressDen
        r  == NPC_CULL_DISTANCE * Scale * ProgressDen
    IN  dx * dx + dz * dz > r * r

\* updateNPCs with the culled branch also sending the walker back to the start
\* of its segment
updateNPCRestart(npc, step, p) ==
    IF culled(npc, p) THEN [npc EXCEPT !.visible = FALSE, !.resumed = FALSE, !.progress = 0]
    ELSE
        LET len      == Len(npc.path)
            from     == npc.path[npc.pathIndex + 1]
            to       == npc.path[((npc.pathIndex + 1) % len) + 1]
            advanced == npc.progress + step
            wraps    == advanced >= ProgressDen
            progress == IF wraps THEN 0 ELSE advanced
        IN  [npc EXCEPT !.visible = TRUE,
                        !.progress = progress,
                        !.pathIndex = IF wraps THEN (npc.pathIndex + 1) % len ELSE @,
                        !.position = lerp(from, to, progress),
                        !.updates = 1,
                        !.resumed = ~npc.visible]

\* the body of updateNPCs for one walker: from and to are read before the
\* index advances, the position is written from them after it
updateNPC(npc, step, p) ==
    IF culled(npc, p) THEN [npc EXCEPT !.visible = FALSE, !.resumed = FALSE]
    ELSE
        LET len      == Len(npc.path)
            from     == npc.path[npc.pathIndex + 1]
            to       == npc.path[((npc.pathIndex + 1) % len) + 1]
            advanced == npc.progress + step
            wraps    == advanced >= ProgressDen
            progress == IF wraps THEN 0 ELSE advanced
        IN  [npc EXCEPT !.visible = TRUE,
                        !.progress = progress,
                        !.pathIndex = IF wraps THEN (npc.pathIndex + 1) % len ELSE @,
                        !.position = lerp(from, to, progress),
                        !.updates = 1,
                        !.resumed = ~npc.visible]

InitWalker ==
    /\ buildings \in Cities
    /\ player = [x |-> 0, z |-> 0]
    /\ attempt = NoAttempt
    /\ frames = 0
    /\ hud = NoHud
    /\ achievements = NoAchievements
    /\ windowTransforms = NoWindows
    /\ modes = NoModes
    /\ ambience = NoAmbience
    /\ query = NoQuery
    /\ placement = NoPlacement
    /\ collect = NoCollect
    /\ walker \in { createNPC(path) : path \in WalkerPaths }
    /\ boot = NoBoot

\* a frame of animate: updatePlayer, then updateNPCs(delta, player)
UpdateNPCs ==
    /\ \E d \in AxisMoves : player' = updatePlayer(player, d)
    /\ \E step \in ProgressSteps : walker' = updateNPC(walker, step, player')
    /\ UNCHANGED <<buildings, attempt, frames, query, placement, collect, boot, windowTransforms, modes, ambience, hud, achievements>>

NextWalker == UpdateNPCs

SpecWalker == InitWalker /\ [][NextWalker]_vars

----------------------------------------------------------------------------
(* Walker paths: generateNPCPath, one pass of its sampling loops at a time  *)

NPC_PATH_MIN_POINTS == 4
\* `startAttempts < 30`
START_RETRIES == 30
\* `attempts < 10`
STEP_RETRIES == 10
\* HALF_CITY - 5, in model units
PathLimit == (HALF_CITY - 5) * Scale

\* Math.floor(Math.random() * NPC_PATH_EXTRA_POINTS) in the model
PathExtras == {0, 1}

\* start samples (Math.random() - 0.5) * CITY_SIZE * 0.7 can give: inside the
\* block of cell (-44, -16), one unit off its east wall, the park
PathStarts == { [x |-> -180, z |-> -12], [x |-> -120, z |-> -12], [x |-> 0, z |-> 0] }

\* (Math.random() < 0.5 ? 1 : 0) * (Math.random() - 0.5) * NPC_PATH_STEP: ten
\* units either way along x, or no move
PathOffsets == { [x |-> -10 * Scale, z |-> 0], [x |-> 0, z |-> 0], [x |-> 10 * Scale, z |-> 0] }

\* Math.max(-HALF_CITY + 5, Math.min(HALF_CITY - 5, v))
clampPath(v) == Max(-PathLimit, Min(PathLimit, v))

\* the first sample of the start point
startPath(c, numPoints) ==
    [ pc |-> "start", x |-> c.x, z |-> c.z, attempts |-> 0, points |-> <<>>,
      numPoints |-> numPoints ]

\* `while (isInsideBuilding(x, z) && startAttempts < 30)`
resamplesStart(g) ==
    isInsideBuilding(g.x, g.z, DEFAULT_PADDING) /\ g.attempts < START_RETRIES

\* the for loop pushes the current point and enters the do-while
pushPoint(g) ==
    [g EXCEPT !.pc = "step", !.points = Append(@, [x |-> g.x, z |-> g.z]), !.attempts = 0]

\* one pass of `do { nx, nz = ...; attempts++ } while (blocked && attempts < 10)`;
\* when it ends, x and z take the last sample whatever the query said, and the
\* for loop pushes it or the path is returned
stepPass(g, off) ==
    LET nx == clampPath(g.x + off.x)
        nz == clampPath(g.z + off.z)
        attempts == g.attempts + 1
    IN  IF isInsideBuilding(nx, nz, DEFAULT_PADDING) /\ attempts < STEP_RETRIES
        THEN [g EXCEPT !.attempts = attempts]
        ELSE IF Len(g.points) < g.numPoints
             THEN pushPoint([g EXCEPT !.x = nx, !.z = nz])
             ELSE [g EXCEPT !.pc = "done", !.x = nx, !.z = nz, !.attempts = attempts]

InitPath ==
    /\ buildings \in Cities
    /\ player = [x |-> 0, z |-> 0]
    /\ attempt = NoAttempt
    /\ frames = 0
    /\ hud = NoHud
    /\ achievements = NoAchievements
    /\ windowTransforms = NoWindows
    /\ modes = NoModes
    /\ ambience = NoAmbience
    /\ query = NoQuery
    /\ placement = NoPlacement
    /\ collect = NoCollect
    /\ walker \in { startPath(c, NPC_PATH_MIN_POINTS + e) : c \in PathStarts, e \in PathExtras }
    /\ boot = NoBoot

ResampleStart ==
    /\ walker.pc = "start"
    /\ resamplesStart(walker)
    /\ \E c \in PathStarts :
         walker' = [walker EXCEPT !.x = c.x, !.z = c.z, !.attempts = @ + 1]
    /\ UNCHANGED <<buildings, playerVars, query, placement, collect, boot, windowTransforms, modes, ambience, hud, achievements>>

BeginWalk ==
    /\ walker.pc = "start"
    /\ ~resamplesStart(walker)
    /\ walker' = pushPoint(walker)
    /\ UNCHANGED <<buildings, playerVars, query, placement, collect, boot, windowTransforms, modes, ambience, hud, achievements>>

StepSample ==
    /\ walker.pc = "step"
    /\ \E off \in PathOffsets : walker' = stepPass(walker, off)
    /\ UNCHANGED <<buildings, playerVars, query, placement, collect, boot, windowTransforms, modes, ambience, hud, achievements>>

NextPath == ResampleStart \/ BeginWalk \/ StepSample

SpecPath == InitPath /\ [][NextPath]_vars

----------------------------------------------------------------------------
(* Start-up: init() of the two entry points, one call at a time, then the   *)
(* first animation frame and the loop                                       *)

\* the calls of init() in order: the entry point with every system
EnhancedSteps ==
    << "detectMobile", "setupScene", "setupLighting", "setupFog", "setupSkybox",
       "setupGround", "generateCity", "generateNPCs", "createCollectibles",
       "createWildlife", "createChallenges", "createInteractiveElements",
       "createParticles", "setupControls", "setupMobileControls", "setupResize",
       "setupSoundToggle", "setupPauseMenu", "setupJournalTabs",
       "setupExtraKeyBindings", "onAchievement", "onDiscovery", "scheduleThought",
       "requestAnimationFrame" >>

\* the calls of init() in order: the plain entry point
BasicSteps ==
    << "detectMobile", "setupScene", "setupLighting", "setupFog", "setupSkybox",
       "setupGround", "generateCity", "generateNPCs", "createParticles",
       "setupControls", "setupMobileControls", "setupResize", "setupSoundToggle",
       "scheduleThought", "requestAnimationFrame" >>

InitSteps(variant) == IF variant = "enhanced" THEN EnhancedSteps ELSE BasicSteps

\* the calls init() follows with updateLoadingProgress(...), which rewrites
\* the loading text
ProgressAfter(variant) ==
    IF variant = "enhanced"
    THEN { "setupGround", "generateCity", "generateNPCs", "createCollectibles",
           "createWildlife", "createChallenges", "createInteractiveElements",
           "createParticles", "onDiscovery" }
    ELSE { "setupGround", "generateCity", "generateNPCs", "createParticles" }

StartBoot(variant) ==
    [ variant |-> variant, pc |-> 1, gl |-> "unknown", renderer |-> FALSE,
      ran |-> {}, text |-> "loading", listeners |-> {}, scheduled |-> FALSE,
      loop |-> FALSE, crashed |-> FALSE, waypoints |-> <<>> ]

\* the call init() is about to make
CurrentStep(b) ==
    IF b.crashed \/ b.pc > Len(InitSteps(b.variant)) THEN "none"
    ELSE InitSteps(b.variant)[b.pc]

\* a call of init() returns: it is recorded, the loading text is rewritten when
\* updateLoadingProgress follows, and init() goes on to its next call
returned(b, step) ==
    [b EXCEPT !.ran = @ \cup {step},
              !.pc = @ + 1,
              !.text = IF step \in ProgressAfter(b.variant) THEN "progress" ELSE @]

\* the outcomes of setupScene: a context and a renderer; no context; the
\* WebGLRenderer constructor throws, before `renderer` is assigned; a later
\* statement of the try block throws (setSize ... appendChild, and the
\* EffectComposer and its passes in the entry point with every system), after
\* `renderer` is assigned
SceneOutcomes == {"ok", "none", "throws", "throwsLate"}

\* setupScene: `if (!gl) { showError(...); return; }`, else the renderer is
\* built inside try/catch, whose catch shows the error: `renderer` is set
\* from the moment the constructor has returned, whatever throws afterwards
setupScene(b, gl) ==
    returned([b EXCEPT !.gl = gl,
                       !.renderer = (gl \in {"ok", "throwsLate"}),
                       !.text = IF gl = "ok" THEN @ ELSE "error"], "setupScene")

\* setupControls(renderer, camera): keydown and keyup are registered on the
\* document, then renderer.domElement is read: a TypeError without a renderer
setupControls(b) ==
    IF b.renderer
    THEN returned([b EXCEPT !.listeners = @ \cup {"keydown", "keyup", "click",
                                                   "pointerlockchange", "mousemove"}],
                  "setupControls")
    ELSE [b EXCEPT !.listeners = @ \cup {"keydown", "keyup"},
                   !.ran = @ \cup {"setupControls"},
                   !.crashed = TRUE]

InitBoot ==
    /\ buildings = {}
    /\ player = [x |-> 0, z |-> 0]
    /\ attempt = NoAttempt
    /\ frames = 0
    /\ hud = NoHud
    /\ achievements = NoAchievements
    /\ windowTransforms = NoWindows
    /\ modes = NoModes
    /\ ambience = NoAmbience
    /\ query = NoQuery
    /\ placement = NoPlacement
    /\ collect = NoCollect
    /\ walker = NoWalker
    /\ boot \in { StartBoot(v) : v \in {"enhanced", "basic"} }

SetupScene ==
    /\ CurrentStep(boot) = "setupScene"
    /\ \E gl \in SceneOutcomes : boot' = setupScene(boot, gl)
    /\ UNCHANGED <<buildings, playerVars, query, placement, collect, walker, windowTransforms, modes, ambience, hud, achievements>>

GenerateCity ==
    /\ CurrentStep(boot) = "generateCity"
    /\ buildings' \in Cities
    /\ boot' = returned(boot, "generateCity")
    /\ UNCHANGED <<playerVars, query, placement, collect, walker, windowTransforms, modes, ambience, hud, achievements>>

SetupControls ==
    /\ CurrentStep(boot) = "setupControls"
    /\ boot' = setupControls(boot)
    /\ UNCHANGED <<buildings, playerVars, query, placement, collect, walker, windowTransforms, modes, ambience, hud, achievements>>

\* createChallenges: one waypoint per entry of WAYPOINT_DEFS, at the position
\* the entry gives, undiscovered
createChallenges ==
    [ w \in DOMAIN WAYPOINT_DEFS |->
        [ x |-> WAYPOINT_DEFS[w][1] * Scale, z |-> WAYPOINT_DEFS[w][2] * Scale,
          discovered |-> FALSE ] ]

CreateChallenges ==
    /\ CurrentStep(boot) = "createChallenges"
    /\ boot' = [returned(boot, "createChallenges") EXCEPT !.waypoints = createChallenges]
    /\ UNCHANGED <<buildings, playerVars, query, placement, collect, walker, windowTransforms, modes, ambience, hud, achievements>>

\* requestAnimationFrame(() => { ... animate(); }) registers the first frame
RequestFirstFrame ==
    /\ CurrentStep(boot) = "requestAnimationFrame"
    /\ boot' = [returned(boot, "requestAnimationFrame") EXCEPT !.scheduled = TRUE]
    /\ UNCHANGED <<buildings, playerVars, query, placement, collect, walker, windowTransforms, modes, ambience, hud, achievements>>

\* every other call of init()
InitCall ==
    /\ CurrentStep(boot) \notin
          {"none", "setupScene", "generateCity", "createChallenges", "setupControls",
           "requestAnimationFrame"}
    /\ boot' = returned(boot, CurrentStep(boot))
    /\ UNCHANGED <<buildings, playerVars, query, placement, collect, walker, windowTransforms, modes, ambience, hud, achievements>>

\* the registered callback: renderer.render, hideLoadingScreen, animate()
FirstFrame ==
    /\ boot # NoBoot
    /\ boot.scheduled /\ ~boot.loop
    /\ boot' = [boot EXCEPT !.loop = TRUE, !.text = "hidden"]
    /\ UNCHANGED <<buildings, playerVars, query, placement, collect, walker, windowTransforms, modes, ambience, hud, achievements>>

\* animate(): the loop runs a frame
Animate ==
    /\ boot # NoBoot
    /\ boot.loop
    /\ \E d \in AxisMoves : player' = updatePlayer(player, d)
    /\ UNCHANGED <<buildings, attempt, frames, query, placement, collect, walker, boot, windowTransforms, modes, ambience, hud, achievements>>

NextBoot ==
    \/ SetupScene \/ GenerateCity \/ CreateChallenges \/ SetupControls \/ RequestFirstFrame
    \/ InitCall \/ FirstFrame \/ Animate

SpecBoot == InitBoot /\ [][NextBoot]_vars

----------------------------------------------------------------------------
(* Windows: collectWindows for one building, one loop iteration per step.   *)
(* Math.random() < WINDOW_SKIP_CHANCE is either outcome.                    *)

WINDOW_SPACING_Y == 3
WINDOW_SPACING_X_E1 == 25                \* 2.5, in tenths

numFloors(b) == b.height \div (WINDOW_SPACING_Y * Scale)
numWinX(b) == (b.width * 10) \div (WINDOW_SPACING_X_E1 * Scale)
numWinZ(b) == (b.depth * 10) \div (WINDOW_SPACING_X_E1 * Scale)

\* the shapes collectWindows is run on: heights 4, 11.5 and 12, widths 4, 9.5
\* and 10, depths 10 and 18
WindowHeights == {4 * Scale, 69, 12 * Scale}
WindowWidths == {4 * Scale, 57, 10 * Scale}
WindowDepths == {10 * Scale, 18 * Scale}

\* a `for` loop whose condition fails is left: from the front/back loop to
\* the side loop, from the side loop to the end of the function
leaveLoops(w) ==
    LET s == IF w.pc = "frontback" /\ (w.floor >= numFloors(w.b) \/ numWinX(w.b) = 0)
             THEN [w EXCEPT !.pc = "sides", !.floor = 0, !.col = 0]
             ELSE w
    IN  IF s.pc = "sides" /\ (s.floor >= numFloors(s.b) \/ numWinZ(s.b) = 0)
        THEN [s EXCEPT !.pc = "done"]
        ELSE s

\* the inner loop's wx++ / wz++, and floor++ at the end of a row
nextSlot(w, cols) ==
    leaveLoops(IF w.col + 1 < cols
               THEN [w EXCEPT !.col = @ + 1]
               ELSE [w EXCEPT !.col = 0, !.floor = @ + 1])

collectWindows(b) ==
    leaveLoops([pc |-> "frontback", b |-> b, floor |-> 0, col |-> 0,
                front |-> 0, back |-> 0, left |-> 0, right |-> 0, skipped |-> 0])

\* the front/back iteration pushing the front transform only
frontBackSlotFrontOnly(w, skip) ==
    nextSlot(IF skip THEN [w EXCEPT !.skipped = @ + 1]
             ELSE [w EXCEPT !.front = @ + 1],
             numWinX(w.b))

\* one iteration of the front/back loop: `continue`, or two pushes
frontBackSlot(w, skip) ==
    nextSlot(IF skip THEN [w EXCEPT !.skipped = @ + 1]
             ELSE [w EXCEPT !.front = @ + 1, !.back = @ + 1],
             numWinX(w.b))

\* one iteration of the side loop: `continue`, or two pushes
sideSlot(w, skip) ==
    nextSlot(IF skip THEN [w EXCEPT !.skipped = @ + 1]
             ELSE [w EXCEPT !.left = @ + 1, !.right = @ + 1],
             numWinZ(w.b))

InitWindows ==
    /\ buildings = {}
    /\ player = [x |-> 0, z |-> 0]
    /\ attempt = NoAttempt
    /\ frames = 0
    /\ hud = NoHud
    /\ achievements = NoAchievements
    /\ query = NoQuery
    /\ placement = NoPlacement
    /\ collect = NoCollect
    /\ walker = NoWalker
    /\ boot = NoBoot
    /\ modes = NoModes
    /\ ambience = NoAmbience
    /\ \E h \in WindowHeights, w \in WindowWidths, d \in WindowDepths :
         windowTransforms = collectWindows([height |-> h, width |-> w, depth |-> d])

FrontBackSlot ==
    /\ windowTransforms.pc = "frontback"
    /\ \E skip \in BOOLEAN : windowTransforms' = frontBackSlot(windowTransforms, skip)
    /\ UNCHANGED <<buildings, playerVars, query, placement, collect, walker, boot, modes, ambience, hud, achievements>>

SideSlot ==
    /\ windowTransforms.pc = "sides"
    /\ \E skip \in BOOLEAN : windowTransforms' = sideSlot(windowTransforms, skip)
    /\ UNCHANGED <<buildings, playerVars, query, placement, collect, walker, boot, modes, ambience, hud, achievements>>

NextWindows == FrontBackSlot \/ SideSlot

SpecWindows == InitWindows /\ [][NextWindows]_vars

----------------------------------------------------------------------------
(* Ambience of the modular game: lighting.js' cycle and the soundscape's    *)
(* sound toggle and bird chirps.  The cycle advances by ticks of 1/3600 of  *)
(* a second, the unit in which the frame deltas of normal play and those of *)
(* the other branches are both whole, so the cycle phase is a numerator     *)
(* over DAY_NIGHT_CYCLE_DURATION * 3600.  A timer set with setTimeout is    *)
(* pending until its callback runs.                                         *)

DAY_NIGHT_CYCLE_DURATION == 120
TicksPerSecond == 60 * 60
CycleDen == DAY_NIGHT_CYCLE_DURATION * TicksPerSecond

\* a frame delta of dt hundredths of a second, in ticks
Ticks(dt) == dt * (TicksPerSecond \div 100)

\* Math.min(clock.getDelta(), 0.1): a short frame and a capped one
DeltasE2 == {5, 10 * DELTA_CAP_E1}

\* Math.sin(phase * PI) > 0.7, where chirp() reads dayAmount < 0.3: phase
\* above asin(0.7) / PI = 0.246817 and below 1 - 0.246817
QUIET_FROM == 106625
nightAmountLoud(c) == QUIET_FROM <= c /\ c <= CycleDen - QUIET_FROM

\* updateDayNight(delta): cycleTime = (cycleTime + delta / DURATION) % 1,
\* for a delta in ticks
updateDayNight(c, ticks) == (c + ticks) % CycleDen

StartAmbience ==
    [pc |-> "modules", soundOn |-> FALSE, audioCtx |-> "none",
     contexts |-> 0, graphs |-> 0, chirpTimer |-> FALSE, chirped |-> FALSE,
     cycleTime |-> 0, dayAmountLow |-> FALSE]

\* enableSound: a context and the soundscape are made only when there is no
\* context yet, otherwise the context is resumed; createSoundscape ends by
\* startBirdChirps, which sets the first chirp timer
enableSound(a) ==
    IF a.audioCtx = "none"
    THEN [a EXCEPT !.audioCtx = "running", !.contexts = @ + 1, !.graphs = @ + 1,
                   !.chirpTimer = TRUE, !.soundOn = TRUE]
    ELSE [a EXCEPT !.audioCtx = "running", !.soundOn = TRUE]

\* disableSound: the context is suspended
disableSound(a) ==
    [a EXCEPT !.audioCtx = IF @ = "none" THEN @ ELSE "suspended", !.soundOn = FALSE]

\* the chirp callback: it returns without a new timer when sound is off or
\* dayAmount < 0.3, otherwise it plays and sets the next timer
chirp(a) ==
    IF ~a.soundOn \/ a.audioCtx = "none" THEN [a EXCEPT !.chirpTimer = FALSE]
    ELSE IF a.dayAmountLow THEN [a EXCEPT !.chirpTimer = FALSE]
    ELSE [a EXCEPT !.chirped = TRUE, !.chirpTimer = TRUE]

InitAmbience ==
    /\ buildings = {}
    /\ player = [x |-> 0, z |-> 0]
    /\ attempt = NoAttempt
    /\ frames = 0
    /\ hud = NoHud
    /\ achievements = NoAchievements
    /\ query = NoQuery
    /\ placement = NoPlacement
    /\ collect = NoCollect
    /\ walker = NoWalker
    /\ boot = NoBoot
    /\ windowTransforms = NoWindows
    /\ modes = NoModes
    /\ ambience = StartAmbience

\* the click listener of setupSoundToggle
SoundToggle ==
    /\ ambience.pc = "modules"
    /\ ambience' = [(IF ambience.soundOn THEN disableSound(ambience)
                     ELSE enableSound(ambience)) EXCEPT !.chirped = FALSE]
    /\ UNCHANGED <<buildings, playerVars, query, placement, collect, walker, boot, windowTransforms, modes, hud, achievements>>

\* a chirp timer expires
ChirpTimer ==
    /\ ambience.pc = "modules"
    /\ ambience.chirpTimer
    /\ ambience' = chirp(ambience)
    /\ UNCHANGED <<buildings, playerVars, query, placement, collect, walker, boot, windowTransforms, modes, hud, achievements>>

\* animate(): updateDayNight, then updateAudioTimeOfDay(getNightAmount())
AmbienceFrame ==
    /\ ambience.pc = "modules"
    /\ \E dt \in DeltasE2 :
         LET c == updateDayNight(ambience.cycleTime, Ticks(dt))
         IN  ambience' = [ambience EXCEPT !.cycleTime = c,
                                          !.dayAmountLow = nightAmountLoud(c),
                                          !.chirped = FALSE]
    /\ UNCHANGED <<buildings, playerVars, query, placement, collect, walker, boot, windowTransforms, modes, hud, achievements>>

NextAmbience == SoundToggle \/ ChirpTimer \/ AmbienceFrame

\* requestAnimationFrame keeps the frames coming and a pending timer expires;
\* nothing makes the user click
SpecAmbience ==
    InitAmbience /\ [][NextAmbience]_vars /\ WF_vars(AmbienceFrame) /\ WF_vars(ChirpTimer)

----------------------------------------------------------------------------
(* The single-file game (main.js): its sound toggle, time slider and the    *)
(* cycle step of its animate().  timeOfDay is a numerator over TimeDen:     *)
(* delta * 0.002 with delta in hundredths of a second is delta * 2 / TimeDen *)

TimeDen == 100000
TIME_OF_DAY_START == 65000               \* 0.65
MaxContexts == 2

\* values of the slider: Math.round(timeOfDay * 100) is what animate() writes
\* to it, 0 to 100
SliderValues == {0, 25, 50, 99, 100}

StartLegacy ==
    [pc |-> "main.js", soundOn |-> FALSE, audioCtx |-> "none",
     contexts |-> 0, graphs |-> 0,
     timeOfDay |-> TIME_OF_DAY_START, autoTimeEnabled |-> TRUE]

\* the click listener of the sound toggle in setupUIControls
legacySoundClick(a) ==
    IF ~a.soundOn
    THEN [a EXCEPT !.audioCtx = "running",
                   !.contexts = IF a.audioCtx = "none" THEN @ + 1 ELSE @,
                   !.graphs = @ + 1,
                   !.soundOn = TRUE]
    ELSE [a EXCEPT !.audioCtx = "none", !.soundOn = FALSE]

\* the cycle step of animate()
legacyAdvance(a, dt) ==
    IF a.autoTimeEnabled
    THEN LET t == a.timeOfDay + 2 * dt
         IN  [a EXCEPT !.timeOfDay = IF t > TimeDen THEN t - TimeDen ELSE t]
    ELSE a

InitLegacy ==
    /\ buildings = {}
    /\ player = [x |-> 0, z |-> 0]
    /\ attempt = NoAttempt
    /\ frames = 0
    /\ hud = NoHud
    /\ achievements = NoAchievements
    /\ query = NoQuery
    /\ placement = NoPlacement
    /\ collect = NoCollect
    /\ walker = NoWalker
    /\ boot = NoBoot
    /\ windowTransforms = NoWindows
    /\ modes = NoModes
    /\ ambience = StartLegacy

LegacySoundClick ==
    /\ ambience.pc = "main.js"
    /\ ambience.soundOn \/ ambience.audioCtx # "none" \/ ambience.contexts < MaxContexts
    /\ ambience' = legacySoundClick(ambience)
    /\ UNCHANGED <<buildings, playerVars, query, placement, collect, walker, boot, windowTransforms, modes, hud, achievements>>

\* the slider's input listener
LegacySlider ==
    /\ ambience.pc = "main.js"
    /\ \E v \in SliderValues :
         ambience' = [ambience EXCEPT !.timeOfDay = v * (TimeDen \div 100),
                                      !.autoTimeEnabled = FALSE]
    /\ UNCHANGED <<buildings, playerVars, query, placement, collect, walker, boot, windowTransforms, modes, hud, achievements>>

\* the slider's dblclick listener
LegacyDblClick ==
    /\ ambience.pc = "main.js"
    /\ ~ambience.autoTimeEnabled
    /\ ambience' = [ambience EXCEPT !.autoTimeEnabled = TRUE]
    /\ UNCHANGED <<buildings, playerVars, query, placement, collect, walker, boot, windowTransforms, modes, hud, achievements>>

LegacyFrame ==
    /\ ambience.pc = "main.js"
    /\ ambience.autoTimeEnabled
    /\ \E dt \in DeltasE2 : ambience' = legacyAdvance(ambience, dt)
    /\ UNCHANGED <<buildings, playerVars, query, placement, collect, walker, boot, windowTransforms, modes, hud, achievements>>

NextLegacy == LegacySoundClick \/ LegacySlider \/ LegacyDblClick \/ LegacyFrame

SpecLegacy == InitLegacy /\ [][NextLegacy]_vars

----------------------------------------------------------------------------
(* Modes of the enhanced game: the key and mouse listeners of the entry     *)
(* point and of the controls, photomode.js, meditation.js, and animate()    *)
(* with its branch per mode, once the intro has ended.  player.yaw and player.pitch are kept in `modes`, in thousandths *)
(* of a radian; meditationTime is in hundredths of a second and             *)
(* transitionProgress in hundredths.                                        *)

LOOK_SPEED_E3 == 2
TOUCH_LOOK_SPEED_E3 == 5
PITCH_LIMIT == 1047                      \* Math.PI / 3, in thousandths
TRANSITION_SPEED_E1 == 8

\* e.movementX, e.movementY of a mouse move, in pixels
MouseMoves == { [dx |-> 20, dy |-> 0], [dx |-> 0, dy |-> 300] }
\* how far a look touch has moved since its last position, in pixels
TouchMoves == { [dx |-> 8, dy |-> 0], [dx |-> 0, dy |-> 300] }
MaxYaw == 80
MaxModeFrames == 2
\* meditationTime is followed up to here; only the breathing guide and the
\* camera height read it
MaxMeditationTime == 200

\* isMobile is what initControls read from the user agent; lookTouch says
\* whether lookTouchId holds a touch
StartModes(isMobile) ==
    [pc |-> "play", photo |-> FALSE, meditation |-> FALSE, paused |-> FALSE,
     journalOpen |-> FALSE, isPointerLocked |-> FALSE, isMobile |-> isMobile,
     lookTouch |-> FALSE, yaw |-> 0, pitch |-> 0,
     meditationTime |-> 0, transitionProgress |-> 0,
     playerFrozenPos |-> [x |-> 0, z |-> 0]]

\* togglePhotoMode: isActive = !isActive, the player's position is noted
togglePhotoMode(m, p) ==
    IF m.photo THEN [m EXCEPT !.photo = FALSE]
    ELSE [m EXCEPT !.photo = TRUE, !.playerFrozenPos = p]

\* toggleMeditation: isActive = !isActive, the clocks restart on entry
toggleMeditation(m) ==
    IF m.meditation THEN [m EXCEPT !.meditation = FALSE]
    ELSE [m EXCEPT !.meditation = TRUE, !.meditationTime = 0, !.transitionProgress = 0]

\* updateMeditation(delta): both clocks advance, nothing ends the mode
updateMeditation(m, dt) ==
    IF ~m.meditation THEN m
    ELSE [m EXCEPT !.meditationTime = Min(MaxMeditationTime, @ + dt),
                   !.transitionProgress = Min(100, @ + (dt * TRANSITION_SPEED_E1) \div 10)]

\* the mousemove listener of setupControls
mouseLook(m, mv) ==
    IF ~m.isPointerLocked THEN m
    ELSE [m EXCEPT !.yaw = @ - mv.dx * LOOK_SPEED_E3,
                   !.pitch = Max(-PITCH_LIMIT, Min(PITCH_LIMIT, @ - mv.dy * LOOK_SPEED_E3))]

\* the touchmove listener of setupMobileControls, for the look touch
touchLook(m, mv) ==
    IF ~m.lookTouch THEN m
    ELSE [m EXCEPT !.yaw = @ - mv.dx * TOUCH_LOOK_SPEED_E3,
                   !.pitch = Max(-PITCH_LIMIT, Min(PITCH_LIMIT, @ - mv.dy * TOUCH_LOOK_SPEED_E3))]

\* the strafe key held during a frame of normal play, if any
HeldKeys == {"none", "KeyA", "KeyD"}

\* the deltas of the frames of normal play, in ticks: 5/144 s and 5/72 s,
\* both below the cap, for which the walk and the walker's step are whole
FrameTicks == {125, 250}
FrameInputs == [key : HeldKeys, ticks : FrameTicks]

\* updatePlayer: speed = WALK_SPEED * delta * 60, in thousandths of a model
\* unit
speedE3(ticks) == (WALK_SPEED_E2 * ticks * 60 * Scale * 10) \div TicksPerSecond

\* updatePlayer at yaw 0: moveX of the key held, normalised, times the speed
\* along x, and nothing along z; with no key held the player stays
displacement(f) ==
    LET moveX == IF f.key = "KeyA" THEN -1 ELSE IF f.key = "KeyD" THEN 1 ELSE 0
    IN  [x |-> moveX * (speedE3(f.ticks) \div 1000), z |-> 0]

\* the walker of normal play: npc.speed = 0.024, drawn from
\* [NPC_MIN_SPEED, NPC_MIN_SPEED + NPC_SPEED_RANGE)
WALKER_SPEED_E3 == 24

\* updateNPCs: npc.speed * delta * 60, in twentieths
progressStep(ticks) == (WALKER_SPEED_E3 * ticks * 60 * ProgressDen) \div (1000 * TicksPerSecond)

\* the keydown listener for P: `if (isMeditationActive()) return`
onKeyP(m, p) ==
    IF m.paused \/ m.journalOpen \/ m.meditation THEN m
    ELSE togglePhotoMode(m, p)

\* the keydown listener for N without the photo-mode test
onKeyNAnyMode(m) ==
    IF m.paused \/ m.journalOpen THEN m
    ELSE toggleMeditation(m)

\* the keydown listener for N: `if (isPhotoModeActive()) return`
onKeyN(m) ==
    IF m.paused \/ m.journalOpen \/ m.photo THEN m
    ELSE toggleMeditation(m)

InitModes ==
    /\ buildings \in Cities
    /\ player = [x |-> 0, z |-> 0]
    /\ attempt = NoAttempt
    /\ frames = 0
    /\ hud = NoHud
    /\ achievements = NoAchievements
    /\ query = NoQuery
    /\ placement = NoPlacement
    /\ collect \in { StartCollect(items) : items \in ItemLayouts }
    /\ walker \in { createNPC(path) : path \in WalkerPaths }
    /\ boot = NoBoot
    /\ windowTransforms = NoWindows
    /\ modes \in { StartModes(isMobile) : isMobile \in BOOLEAN }
    /\ ambience = StartAmbience

\* the pointerlockchange listener: the lock is taken or released; the click
\* listener asks for the lock only when the device is not mobile
PointerLockChange ==
    /\ modes.pc = "play"
    /\ ~modes.isMobile
    /\ modes' = [modes EXCEPT !.isPointerLocked = ~@]
    /\ UNCHANGED <<buildings, playerVars, query, placement, collect, walker, boot, windowTransforms, ambience, hud, achievements>>

MouseMove ==
    /\ modes.pc = "play"
    /\ modes.isPointerLocked
    /\ \E mv \in MouseMoves :
         /\ Abs(modes.yaw - mv.dx * LOOK_SPEED_E3) <= MaxYaw
         /\ modes' = mouseLook(modes, mv)
    /\ UNCHANGED <<buildings, playerVars, query, placement, collect, walker, boot, windowTransforms, ambience, hud, achievements>>

\* touchstart on the right half of the screen: the touch becomes the look touch
TouchStart ==
    /\ modes.pc = "play"
    /\ modes.isMobile
    /\ ~modes.lookTouch
    /\ modes' = [modes EXCEPT !.lookTouch = TRUE]
    /\ UNCHANGED <<buildings, playerVars, query, placement, collect, walker, boot, windowTransforms, ambience, hud, achievements>>

\* touchmove of the look touch
TouchMove ==
    /\ modes.pc = "play"
    /\ modes.isMobile
    /\ modes.lookTouch
    /\ \E mv \in TouchMoves :
         /\ Abs(modes.yaw - mv.dx * TOUCH_LOOK_SPEED_E3) <= MaxYaw
         /\ modes' = touchLook(modes, mv)
    /\ UNCHANGED <<buildings, playerVars, query, placement, collect, walker, boot, windowTransforms, ambience, hud, achievements>>

\* touchend of the look touch
TouchEnd ==
    /\ modes.pc = "play"
    /\ modes.isMobile
    /\ modes.lookTouch
    /\ modes' = [modes EXCEPT !.lookTouch = FALSE]
    /\ UNCHANGED <<buildings, playerVars, query, placement, collect, walker, boot, windowTransforms, ambience, hud, achievements>>

\* keydown Escape: the open journal is closed, otherwise togglePause
PressEscape ==
    /\ modes.pc = "play"
    /\ modes' = IF modes.journalOpen THEN [modes EXCEPT !.journalOpen = FALSE]
                ELSE [modes EXCEPT !.paused = ~@]
    /\ UNCHANGED <<buildings, playerVars, query, placement, collect, walker, boot, windowTransforms, ambience, hud, achievements>>

\* keydown P: ignored when paused, with the journal open or meditating
PressP ==
    /\ modes.pc = "play"
    /\ modes' = onKeyP(modes, player)
    /\ UNCHANGED <<buildings, playerVars, query, placement, collect, walker, boot, windowTransforms, ambience, hud, achievements>>

\* keydown J: toggleJournal, reached only with the journal closed
PressJ ==
    /\ modes.pc = "play"
    /\ ~modes.paused /\ ~modes.journalOpen
    /\ modes' = [modes EXCEPT !.journalOpen = ~@]
    /\ UNCHANGED <<buildings, playerVars, query, placement, collect, walker, boot, windowTransforms, ambience, hud, achievements>>

\* keydown N: ignored when paused, with the journal open or in photo mode
PressN ==
    /\ modes.pc = "play"
    /\ modes' = onKeyN(modes)
    /\ UNCHANGED <<buildings, playerVars, query, placement, collect, walker, boot, windowTransforms, ambience, hud, achievements>>

\* animate(): the paused, photo-mode and meditation branches return early,
\* the last one is normal play.  A frame of normal play is followed with no
\* key held, or with a strafe key held while the camera looks along -z
\* (yaw 0), where updatePlayer's displacement is the speed along x
AnimateModes ==
    /\ modes.pc = "play"
    /\ frames < MaxModeFrames
    /\ frames' = frames + 1
    /\ IF modes.paused \/ modes.journalOpen
       THEN UNCHANGED <<player, walker, collect, modes, ambience>>
       ELSE IF modes.photo
       THEN \E dt \in {10 * DELTA_CAP_E1} :
              /\ ambience' = [ambience EXCEPT !.cycleTime = updateDayNight(@, Ticks(dt))]
              /\ UNCHANGED <<player, walker, collect, modes>>
       ELSE IF modes.meditation
       THEN \E dt \in {10 * DELTA_CAP_E1} :
              /\ modes' = updateMeditation(modes, dt)
              /\ ambience' = [ambience EXCEPT !.cycleTime = updateDayNight(@, Ticks(dt))]
              /\ UNCHANGED <<player, walker, collect>>
       ELSE \E f \in FrameInputs :
              /\ f.key # "none" => modes.yaw = 0
              /\ player' = updatePlayer(player, displacement(f))
              /\ walker' = updateNPC(walker, progressStep(f.ticks), player')
              /\ LET c == updateDayNight(ambience.cycleTime, f.ticks)
                 IN  ambience' = [ambience EXCEPT !.cycleTime = c,
                                                  !.dayAmountLow = nightAmountLoud(c)]
              /\ collect' = collectAndChallenge(collect, player')
              /\ UNCHANGED modes
    /\ UNCHANGED <<buildings, attempt, query, placement, boot, windowTransforms, hud, achievements>>

NextModes ==
    \/ PointerLockChange \/ MouseMove \/ TouchStart \/ TouchMove \/ TouchEnd
    \/ PressEscape \/ PressP \/ PressJ \/ PressN
    \/ AnimateModes

SpecModes == InitModes /\ [][NextModes]_vars

----------------------------------------------------------------------------
(* Meditation on its own, frame after frame: N enters and leaves,           *)
(* animate() takes its meditation branch while the mode is active.          *)

InitMeditation ==
    /\ buildings = {}
    /\ player = [x |-> 0, z |-> 0]
    /\ attempt = NoAttempt
    /\ frames = 0
    /\ hud = NoHud
    /\ achievements = NoAchievements
    /\ query = NoQuery
    /\ placement = NoPlacement
    /\ collect = NoCollect
    /\ walker = NoWalker
    /\ boot = NoBoot
    /\ windowTransforms = NoWindows
    /\ modes = StartModes(FALSE)
    /\ ambience = StartAmbience

\* the meditation branch of animate(): updateMeditation, updateDayNight
MeditationAnimate ==
    /\ modes.pc = "play"
    /\ modes.meditation
    /\ \E dt \in {10 * DELTA_CAP_E1} :
         /\ modes' = updateMeditation(modes, dt)
         /\ ambience' = [ambience EXCEPT !.cycleTime = updateDayNight(@, Ticks(dt))]
    /\ UNCHANGED <<buildings, playerVars, query, placement, collect, walker, boot, windowTransforms, hud, achievements>>

NextMeditation == PressN \/ MeditationAnimate

\* requestAnimationFrame keeps the frames coming; nothing makes the user
\* press a key
SpecMeditation ==
    InitMeditation /\ [][NextMeditation]_vars /\ WF_vars(MeditationAnimate)

----------------------------------------------------------------------------
(* The intro flyover: cinematic.js after startCinematic, with the frames    *)
(* and the key presses of the entry point.  cinematicTime is in hundredths  *)
(* of a second; `camera` is the time on the camera path the camera was last *)
(* placed at, `completed` the number of calls of the completion callback.   *)

CINEMATIC_DURATION == 8

\* startCinematic(onComplete)
startCinematic ==
    [pc |-> "cinematic", isPlaying |-> TRUE, cinematicTime |-> 0, camera |-> -1,
     completed |-> 0, skipped |-> FALSE, returned |-> TRUE]

\* skipCinematic with the callback invoked at once
skipCinematicCallsBack(c) ==
    IF ~c.isPlaying THEN c
    ELSE [c EXCEPT !.cinematicTime = CINEMATIC_DURATION * 100, !.skipped = TRUE,
                   !.completed = @ + 1]

\* skipCinematic: the clock is put at the end, the next update completes
skipCinematic(c) ==
    IF ~c.isPlaying THEN c
    ELSE [c EXCEPT !.cinematicTime = CINEMATIC_DURATION * 100, !.skipped = TRUE]

\* updateCinematic(delta, camera): the camera is placed at
\* t = min(cinematicTime / DURATION, 1); at t >= 1 playing ends and the
\* callback is called
updateCinematic(c, dt) ==
    IF ~c.isPlaying THEN [c EXCEPT !.returned = FALSE]
    ELSE LET time == c.cinematicTime + dt
             t    == Min(time, CINEMATIC_DURATION * 100)
         IN  [c EXCEPT !.cinematicTime = time,
                       !.camera = t,
                       !.isPlaying = t < CINEMATIC_DURATION * 100,
                       !.completed = IF t >= CINEMATIC_DURATION * 100 THEN @ + 1 ELSE @,
                       !.returned = TRUE]

InitCinematic ==
    /\ buildings = {}
    /\ player = [x |-> 0, z |-> 0]
    /\ attempt = NoAttempt
    /\ frames = 0
    /\ hud = NoHud
    /\ achievements = NoAchievements
    /\ query = NoQuery
    /\ placement = NoPlacement
    /\ collect = NoCollect
    /\ walker = NoWalker
    /\ boot = NoBoot
    /\ windowTransforms = NoWindows
    /\ modes = startCinematic
    /\ ambience = NoAmbience

\* a frame of animate(): `if (isCinematicPlaying()) updateCinematic(delta,
\* camera)`; once playing has ended the frames leave the cinematic alone
CinematicFrame ==
    /\ modes.pc = "cinematic"
    /\ modes.isPlaying
    /\ \E dt \in DeltasE2 : modes' = updateCinematic(modes, dt)
    /\ UNCHANGED <<buildings, playerVars, query, placement, collect, walker, boot, windowTransforms, ambience, hud, achievements>>

\* keydown, any key, while the intro plays; skipCinematic called again
CinematicKey ==
    /\ modes.pc = "cinematic"
    /\ modes' = skipCinematic(modes)
    /\ UNCHANGED <<buildings, playerVars, query, placement, collect, walker, boot, windowTransforms, ambience, hud, achievements>>

\* the exported updateCinematic called after playing has ended, as no frame
\* of animate() does: it returns false at once
UpdateAfterEnd ==
    /\ modes.pc = "cinematic"
    /\ ~modes.isPlaying
    /\ \E dt \in DeltasE2 : modes' = updateCinematic(modes, dt)
    /\ UNCHANGED <<buildings, playerVars, query, placement, collect, walker, boot, windowTransforms, ambience, hud, achievements>>

NextCinematic == CinematicFrame \/ CinematicKey \/ UpdateAfterEnd

SpecCinematic == InitCinematic /\ [][NextCinematic]_vars

----------------------------------------------------------------------------
(* Toasts: showToast and processToastQueue of the interface (hud.js, and    *)
(* the same queue in ui.js).  `container` says whether the page has the     *)
(* element 'toast-container'; `timer` is the setTimeout pending for the     *)
(* toast on screen: "hide" (3000 ms) and then "remove" (500 ms).            *)

MaxToasts == 4
ToastTypes == {"info", "achievement", "discovery"}

StartToasts(container) ==
    [pc |-> "toasts", container |-> container, toastQueue |-> <<>>,
     toastActive |-> FALSE, onScreen |-> <<>>, timer |-> "none",
     pushed |-> 0, displayed |-> 0]

\* processToastQueue: an empty queue clears toastActive; otherwise
\* toastActive is set and the head is taken off, and without the container
\* the function returns there; with it the toast is appended and its timer set
processToastQueue(h) ==
    IF h.toastQueue = <<>> THEN [h EXCEPT !.toastActive = FALSE]
    ELSE IF ~h.container
         THEN [h EXCEPT !.toastActive = TRUE, !.toastQueue = Tail(@)]
         ELSE [h EXCEPT !.toastActive = TRUE,
                        !.toastQueue = Tail(@),
                        !.onScreen = <<Head(h.toastQueue)>>,
                        !.timer = "hide",
                        !.displayed = @ + 1]

\* showToast: push, then processToastQueue unless a toast is active
showToast(h, type) ==
    LET q == [h EXCEPT !.toastQueue = Append(@, type), !.pushed = @ + 1]
    IN  IF ~q.toastActive THEN processToastQueue(q) ELSE q

InitToasts ==
    /\ buildings = {}
    /\ player = [x |-> 0, z |-> 0]
    /\ attempt = NoAttempt
    /\ frames = 0
    /\ query = NoQuery
    /\ placement = NoPlacement
    /\ collect = NoCollect
    /\ walker = NoWalker
    /\ boot = NoBoot
    /\ windowTransforms = NoWindows
    /\ modes = NoModes
    /\ ambience = NoAmbience
    /\ hud \in { StartToasts(c) : c \in BOOLEAN }
    /\ achievements = NoAchievements

ShowToast ==
    /\ hud.pc = "toasts"
    /\ hud.pushed < MaxToasts
    /\ \E type \in ToastTypes : hud' = showToast(hud, type)
    /\ UNCHANGED <<buildings, playerVars, query, placement, collect, walker, boot, windowTransforms, modes, ambience, achievements>>

\* the 3000 ms timer: the toast starts to fade and the 500 ms timer is set
HideTimer ==
    /\ hud.pc = "toasts"
    /\ hud.timer = "hide"
    /\ hud' = [hud EXCEPT !.timer = "remove"]
    /\ UNCHANGED <<buildings, playerVars, query, placement, collect, walker, boot, windowTransforms, modes, ambience, achievements>>

\* the 500 ms timer: el.remove(), processToastQueue()
RemoveTimer ==
    /\ hud.pc = "toasts"
    /\ hud.timer = "remove"
    /\ hud' = processToastQueue([hud EXCEPT !.onScreen = <<>>, !.timer = "none"])
    /\ UNCHANGED <<buildings, playerVars, query, placement, collect, walker, boot, windowTransforms, modes, ambience, achievements>>

NextToasts == ShowToast \/ HideTimer \/ RemoveTimer

SpecToasts == InitToasts /\ [][NextToasts]_vars

----------------------------------------------------------------------------
(* The intro of ui.js: runIntro and skipIntro with the timers they set.     *)
(* The timers of runIntro expire in the order of their delays: one per      *)
(* intro line, the fade-out, then the one that hides the intro and calls    *)
(* the callback.  Each skipIntro sets a 500 ms timer of its own.            *)

MaxIntroLines == 3
MaxSkips == 2

StartIntro(present, lines) ==
    [pc |-> "intro", present |-> present, lines |-> lines, ran |-> FALSE,
     revealed |-> 0, chain |-> "none", skipCalls |-> 0, skipTimers |-> 0,
     introComplete |-> FALSE, callbacks |-> 0]

\* the body shared by the last timer of runIntro and the timer of skipIntro:
\* display none, gamestate.setIntroComplete(), introCallback()
finishIntro(h) ==
    [h EXCEPT !.introComplete = TRUE, !.callbacks = @ + 1]

\* runIntro: without the element the callback is called at once; with it
\* the line timers and the fade-out timer are set
runIntro(h) ==
    IF ~h.present THEN [h EXCEPT !.ran = TRUE, !.callbacks = @ + 1]
    ELSE [h EXCEPT !.ran = TRUE, !.chain = IF h.lines = 0 THEN "fade" ELSE "lines"]

\* skipIntro: with the element, a timer that finishes the intro
skipIntro(h) ==
    IF h.present THEN [h EXCEPT !.skipCalls = @ + 1, !.skipTimers = @ + 1]
    ELSE [h EXCEPT !.skipCalls = @ + 1]

InitIntro ==
    /\ buildings = {}
    /\ player = [x |-> 0, z |-> 0]
    /\ attempt = NoAttempt
    /\ frames = 0
    /\ query = NoQuery
    /\ placement = NoPlacement
    /\ collect = NoCollect
    /\ walker = NoWalker
    /\ boot = NoBoot
    /\ windowTransforms = NoWindows
    /\ modes = NoModes
    /\ ambience = NoAmbience
    /\ hud \in { StartIntro(present, lines) : present \in BOOLEAN, lines \in 0..MaxIntroLines }
    /\ achievements = NoAchievements

RunIntro ==
    /\ hud.pc = "intro"
    /\ ~hud.ran
    /\ hud' = runIntro(hud)
    /\ UNCHANGED <<buildings, playerVars, query, placement, collect, walker, boot, windowTransforms, modes, ambience, achievements>>

SkipIntro ==
    /\ hud.pc = "intro"
    /\ hud.skipCalls < MaxSkips
    /\ hud' = skipIntro(hud)
    /\ UNCHANGED <<buildings, playerVars, query, placement, collect, walker, boot, windowTransforms, modes, ambience, achievements>>

\* the timer of the next intro line
LineTimer ==
    /\ hud.pc = "intro"
    /\ hud.chain = "lines"
    /\ hud' = [hud EXCEPT !.revealed = @ + 1,
                          !.chain = IF hud.revealed + 1 = hud.lines THEN "fade" ELSE @]
    /\ UNCHANGED <<buildings, playerVars, query, placement, collect, walker, boot, windowTransforms, modes, ambience, achievements>>

\* the fade-out timer: opacity 0 and the 1500 ms timer
FadeTimer ==
    /\ hud.pc = "intro"
    /\ hud.chain = "fade"
    /\ hud' = [hud EXCEPT !.chain = "hide"]
    /\ UNCHANGED <<buildings, playerVars, query, placement, collect, walker, boot, windowTransforms, modes, ambience, achievements>>

\* the 1500 ms timer of runIntro
HideTimerIntro ==
    /\ hud.pc = "intro"
    /\ hud.chain = "hide"
    /\ hud' = finishIntro([hud EXCEPT !.chain = "done"])
    /\ UNCHANGED <<buildings, playerVars, query, placement, collect, walker, boot, windowTransforms, modes, ambience, achievements>>

\* a 500 ms timer of skipIntro
SkipTimer ==
    /\ hud.pc = "intro"
    /\ hud.skipTimers > 0
    /\ hud' = finishIntro([hud EXCEPT !.skipTimers = @ - 1])
    /\ UNCHANGED <<buildings, playerVars, query, placement, collect, walker, boot, windowTransforms, modes, ambience, achievements>>

NextIntro ==
    \/ RunIntro \/ SkipIntro \/ LineTimer \/ FadeTimer \/ HideTimerIntro \/ SkipTimer

SpecIntro == InitIntro /\ [][NextIntro]_vars

----------------------------------------------------------------------------
(* Achievements: checkAchievements of challenges.js, run by updateChallenges *)
(* on the stats animate() hands it, and of gamestate, run by its record     *)
(* functions on gamestate's own state.  `unlocked` is the list of ids as    *)
(* pushed, `fired` counts the callback or event per id, `earned` is the     *)
(* part of gamestate's score that came from items, photos and flowers.      *)

\* the ids of ACHIEVEMENT_LIST (challenges.js) and of ACHIEVEMENTS
\* (gamestate), in the order of the source
ACHIEVEMENT_LIST ==
    << "first_steps", "collector_10", "collector_25", "collector_all", "explorer_3",
       "explorer_all", "night_owl", "photographer", "zen_master", "flower_power",
       "marathon", "stargazer" >>
ACHIEVEMENTS ==
    << "first_collect", "collector_5", "collector_15", "collector_30", "all_orbs",
       "all_crystals", "all_flowers", "walker_500", "walker_2000", "photographer",
       "photo_5", "meditator", "night_owl", "flower_friend", "completionist",
       "zen_master" >>

ACHIEVEMENT_BONUS == 50
\* how many times the counters of animate() change, and how many calls of
\* gamestate's functions are made, in a run
MaxChanges == 4
MaxCalls == 5

AchievementsOf(impl) == IF impl = "challenges.js" THEN ACHIEVEMENT_LIST ELSE ACHIEVEMENTS

ItemTypes == {"orb", "crystal", "flower"}

\* state.discoveries.length
discoveriesLength(st) ==
    st.discoveries["orb"] + st.discoveries["crystal"] + st.discoveries["flower"]

\* ach.condition(stats) and a.check()
condition(impl, id, st) ==
    IF impl = "challenges.js"
    THEN CASE id = "first_steps"   -> TRUE
           [] id = "collector_10"  -> st.collected >= 10
           [] id = "collector_25"  -> st.collected >= 25
           [] id = "collector_all" -> st.collected >= st.totalCollectibles
           [] id = "explorer_3"    -> st.waypointsFound >= 3
           [] id = "explorer_all"  -> st.waypointsFound >= Len(WAYPOINT_DEFS)
           [] id = "night_owl"     -> st.nightSeen
           [] id = "photographer"  -> st.photosTaken > 0
           [] id = "zen_master"    -> st.meditated
           [] id = "flower_power"  -> st.flowersInteracted >= 5
           [] id = "marathon"      -> st.distanceWalked >= 1000
           [] id = "stargazer"     -> st.starsCollected >= 5
    ELSE CASE id = "first_collect" -> discoveriesLength(st) >= 1
           [] id = "collector_5"   -> discoveriesLength(st) >= 5
           [] id = "collector_15"  -> discoveriesLength(st) >= 15
           [] id = "collector_30"  -> discoveriesLength(st) >= 30
           [] id = "all_orbs"      -> st.discoveries["orb"] >= 20
           [] id = "all_crystals"  -> st.discoveries["crystal"] >= 12
           [] id = "all_flowers"   -> st.discoveries["flower"] >= 15
           [] id = "walker_500"    -> st.distanceWalked >= 500
           [] id = "walker_2000"   -> st.distanceWalked >= 2000
           [] id = "photographer"  -> st.photosTaken >= 1
           [] id = "photo_5"       -> st.photosTaken >= 5
           [] id = "meditator"     -> st.meditationTime >= 30
           [] id = "night_owl"     -> st.nightsWitnessed >= 1
           [] id = "flower_friend" -> st.flowersInteracted >= 5
           [] id = "completionist" -> discoveriesLength(st) >= 47
           [] id = "zen_master"    -> st.meditationTime >= 300

Includes(seq, e) == \E k \in DOMAIN seq : seq[k] = e

\* the unlock of one achievement whose condition holds: push, callback or
\* event, and in gamestate the bonus
grant(a, id) ==
    [a EXCEPT !.unlocked = Append(@, id),
              !.fired[id] = @ + 1,
              !.score = IF a.pc = "gamestate.js" THEN @ + ACHIEVEMENT_BONUS ELSE @]

\* the loop body without the test of the unlocked list
unlockAgain(a, id) ==
    IF condition(a.pc, id, a.stats) THEN grant(a, id) ELSE a

\* the loop body: skipped for an id already in the unlocked list
unlock(a, id) ==
    IF Includes(a.unlocked, id) THEN a
    ELSE IF condition(a.pc, id, a.stats) THEN grant(a, id) ELSE a

RECURSIVE checkFrom(_, _)
checkFrom(a, k) ==
    IF k > Len(AchievementsOf(a.pc)) THEN a
    ELSE checkFrom(unlock(a, AchievementsOf(a.pc)[k]), k + 1)

\* checkAchievements: the list is gone through in order
checkAchievements(a) == checkFrom(a, 1)

\* `item.type === 'orb' ? 10 : item.type === 'crystal' ? 25 : 15`
points(type) == IF type = "orb" THEN 10 ELSE IF type = "crystal" THEN 25 ELSE 15

\* gamestate recordCollection(item): score, journal entry, then the check
recordCollection(a, type) ==
    checkAchievements([a EXCEPT !.stats.discoveries[type] = @ + 1,
                                !.score = @ + points(type),
                                !.earned = @ + points(type)])

\* gamestate addDistance(distance): no check
addDistance(a, distance) == [a EXCEPT !.stats.distanceWalked = @ + distance]

\* gamestate recordPhoto()
recordPhoto(a) ==
    checkAchievements([a EXCEPT !.stats.photosTaken = @ + 1,
                                !.score = @ + 5,
                                !.earned = @ + 5])

\* gamestate addMeditationTime(delta)
addMeditationTime(a, delta) ==
    checkAchievements([a EXCEPT !.stats.meditationTime = @ + delta])

\* gamestate recordNight()
recordNight(a) == checkAchievements([a EXCEPT !.stats.nightsWitnessed = @ + 1])

\* gamestate recordFlowerInteraction()
recordFlowerInteraction(a) ==
    checkAchievements([a EXCEPT !.stats.flowersInteracted = @ + 1,
                                !.score = @ + 3,
                                !.earned = @ + 3])

\* getTotalCollectibles(): no collectible, a handful, or 25
TotalCollectibles == {0, 3, 25}

\* values of the counters animate() keeps, as a frame that reaches
\* updateChallenges may find them
StatLevels ==
    [collected |-> {1, 3, 10, 25}, waypointsFound |-> {1, 3, 10},
     photosTaken |-> {1, 2}, flowersInteracted |-> {4, 5},
     distanceWalked |-> {500, 1000}, starsCollected |-> {4, 5}]

\* distances handed to addDistance, seconds handed to addMeditationTime
Distances == {500, 2000}
MeditationDeltas == {30, 300}

StartAchievements(impl, total) ==
    [pc |-> impl,
     stats |-> IF impl = "challenges.js"
               THEN [collected |-> 0, totalCollectibles |-> total, waypointsFound |-> 0,
                     nightSeen |-> FALSE, photosTaken |-> 0, meditated |-> FALSE,
                     flowersInteracted |-> 0, distanceWalked |-> 0, starsCollected |-> 0]
               ELSE [discoveries |-> [t \in ItemTypes |-> 0], distanceWalked |-> 0,
                     photosTaken |-> 0, meditationTime |-> 0, flowersInteracted |-> 0,
                     nightsWitnessed |-> 0],
     unlocked |-> <<>>,
     fired |-> [id \in {AchievementsOf(impl)[k] : k \in DOMAIN AchievementsOf(impl)} |-> 0],
     score |-> 0, earned |-> 0, calls |-> 0]

InitAchievements ==
    /\ buildings = {}
    /\ player = [x |-> 0, z |-> 0]
    /\ attempt = NoAttempt
    /\ frames = 0
    /\ query = NoQuery
    /\ placement = NoPlacement
    /\ collect = NoCollect
    /\ walker = NoWalker
    /\ boot = NoBoot
    /\ windowTransforms = NoWindows
    /\ modes = NoModes
    /\ ambience = NoAmbience
    /\ hud = NoHud
    /\ achievements \in { StartAchievements("challenges.js", total) : total \in TotalCollectibles }
                          \cup { StartAchievements("gamestate.js", 0) }

\* the counters of animate() grow between two checks: items collected,
\* waypoints found, photos taken, flowers opened, distance walked, stars
CounterChange ==
    /\ achievements.pc = "challenges.js"
    /\ achievements.calls < MaxChanges
    /\ \E f \in DOMAIN StatLevels : \E v \in StatLevels[f] :
         /\ v > achievements.stats[f]
         /\ f = "collected" => v <= achievements.stats.totalCollectibles
         /\ achievements' = [achievements EXCEPT !.stats[f] = v, !.calls = @ + 1]
    /\ UNCHANGED <<buildings, playerVars, query, placement, collect, walker, boot, windowTransforms, modes, ambience, hud>>

\* nightSeen and meditated are set for good
FlagChange ==
    /\ achievements.pc = "challenges.js"
    /\ achievements.calls < MaxChanges
    /\ \/ /\ ~achievements.stats.nightSeen
          /\ achievements' = [achievements EXCEPT !.stats.nightSeen = TRUE, !.calls = @ + 1]
       \/ /\ ~achievements.stats.meditated
          /\ achievements' = [achievements EXCEPT !.stats.meditated = TRUE, !.calls = @ + 1]
    /\ UNCHANGED <<buildings, playerVars, query, placement, collect, walker, boot, windowTransforms, modes, ambience, hud>>

\* updateChallenges ends by checkAchievements(stats)
CheckFrame ==
    /\ achievements.pc = "challenges.js"
    /\ achievements' = checkAchievements(achievements)
    /\ UNCHANGED <<buildings, playerVars, query, placement, collect, walker, boot, windowTransforms, modes, ambience, hud>>

RecordCollection ==
    /\ achievements.pc = "gamestate.js"
    /\ achievements.calls < MaxCalls
    /\ \E type \in ItemTypes : achievements' = [recordCollection(achievements, type) EXCEPT !.calls = @ + 1]
    /\ UNCHANGED <<buildings, playerVars, query, placement, collect, walker, boot, windowTransforms, modes, ambience, hud>>

AddDistance ==
    /\ achievements.pc = "gamestate.js"
    /\ achievements.calls < MaxCalls
    /\ \E distance \in Distances : achievements' = [addDistance(achievements, distance) EXCEPT !.calls = @ + 1]
    /\ UNCHANGED <<buildings, playerVars, query, placement, collect, walker, boot, windowTransforms, modes, ambience, hud>>

RecordPhoto ==
    /\ achievements.pc = "gamestate.js"
    /\ achievements.calls < MaxCalls
    /\ achievements' = [recordPhoto(achievements) EXCEPT !.calls = @ + 1]
    /\ UNCHANGED <<buildings, playerVars, query, placement, collect, walker, boot, windowTransforms, modes, ambience, hud>>

AddMeditationTime ==
    /\ achievements.pc = "gamestate.js"
    /\ achievements.calls < MaxCalls
    /\ \E delta \in MeditationDeltas : achievements' = [addMeditationTime(achievements, delta) EXCEPT !.calls = @ + 1]
    /\ UNCHANGED <<buildings, playerVars, query, placement, collect, walker, boot, windowTransforms, modes, ambience, hud>>

RecordNight ==
    /\ achievements.pc = "gamestate.js"
    /\ achievements.calls < MaxCalls
    /\ achievements' = [recordNight(achievements) EXCEPT !.calls = @ + 1]
    /\ UNCHANGED <<buildings, playerVars, query, placement, collect, walker, boot, windowTransforms, modes, ambience, hud>>

RecordFlowerInteraction ==
    /\ achievements.pc = "gamestate.js"
    /\ achievements.calls < MaxCalls
    /\ achievements' = [recordFlowerInteraction(achievements) EXCEPT !.calls = @ + 1]
    /\ UNCHANGED <<buildings, playerVars, query, placement, collect, walker, boot, windowTransforms, modes, ambience, hud>>

NextAchievements ==
    \/ CounterChange \/ FlagChange \/ CheckFrame
    \/ RecordCollection \/ AddDistance \/ RecordPhoto \/ AddMeditationTime
    \/ RecordNight \/ RecordFlowerInteraction

SpecAchievements == InitAchievements /\ [][NextAchievements]_vars

----------------------------------------------------------------------------
(* The claims *)

\* the point lies within some registered building's rectangle grown by
\* `padding` on all four sides, stated by the distance to the centre
isBlocked(x, z, padding) ==
    \E b \in buildings :
        /\ Abs(2 * (x - b.x)) < b.width + 2 * padding
        /\ Abs(2 * (z - b.z)) < b.depth + 2 * padding

\* the four positions the sliding resolution chooses from
Candidates(p0, d) ==
    { [x |-> p0.x + d.x, z |-> p0.z + d.z], [x |-> p0.x + d.x, z |-> p0.z],
      [x |-> p0.x, z |-> p0.z + d.z], p0 }

(* C1: every frame leaves the player outside every building rectangle      *)
(* expanded by the collision padding, whatever the frames before it were.   *)
C1_NeverInsideBuilding == ~isBlocked(player.x, player.z, COLLISION_PADDING)

\* the player has walked up to a wall: one more step along x would be inside
C1_Witness ==
    /\ player.x # 0
    /\ isBlocked(player.x + StepLen, player.z, COLLISION_PADDING)
    /\ ~isBlocked(player.x, player.z, COLLISION_PADDING)

(* C3: after every frame both coordinates lie in [-98, 98].                 *)
C3_WithinWorldBounds ==
    /\ -98 * Scale <= player.x /\ player.x <= 98 * Scale
    /\ -98 * Scale <= player.z /\ player.z <= 98 * Scale

\* the player stands in a corner of the world, both clamps having acted
C3_Witness == player.x = 98 * Scale /\ player.z = -98 * Scale

(* C2 as stated: the position a frame leaves is not blocked and is one of   *)
(* P0+D, X only, Z only, P0.                                                *)
C2_AsStated ==
    attempt # NoAttempt =>
        /\ ~isBlocked(player.x, player.z, COLLISION_PADDING)
        /\ player \in Candidates(attempt.p0, attempt.d)

(* C2 amended: the position a frame leaves is not blocked and is one of the *)
(* four candidates with each coordinate clamped to [-98, 98].               *)
C2_ClampedCandidate ==
    attempt # NoAttempt =>
        /\ ~isBlocked(player.x, player.z, COLLISION_PADDING)
        /\ \E c \in Candidates(attempt.p0, attempt.d) :
              /\ player.x = Max(-98 * Scale, Min(98 * Scale, c.x))
              /\ player.z = Max(-98 * Scale, Min(98 * Scale, c.z))

\* a frame in which the full move and both single-axis moves were blocked
C2_Witness ==
    /\ attempt # NoAttempt
    /\ attempt.d.x # 0 /\ attempt.d.z # 0
    /\ player = attempt.p0
    /\ isBlocked(player.x + attempt.d.x, player.z, COLLISION_PADDING)
    /\ isBlocked(player.x, player.z + attempt.d.z, COLLISION_PADDING)

(* C4: for every point and every padding p >= 0, p = 0 included, the query  *)
(* answers a boolean that is true exactly when the point lies within some   *)
(* registered building's rectangle expanded by p, and false when no         *)
(* building is registered.                                                  *)
C4_QueryIffWithinExpanded ==
    query.impl \in {"city.js", "main.js"} =>
        /\ query.result \in BOOLEAN
        /\ query.result <=> isBlocked(query.x, query.z, query.padding)
        /\ buildings = {} => ~query.result

(* C5: every entity a rejection-sampling placer has placed stands at a      *)
(* point that is not blocked at that placer's padding against the complete  *)
(* building set (no placer draws before the buildings are registered);      *)
(* an instance that was not placed was dropped, and the placed count is     *)
(* then below the requested count.                                          *)
C5_PlacedNotBlocked ==
    placement.pc \notin {"idle", "blocks"} =>
        /\ buildings \in Cities
        /\ \A e \in placement.placed : ~isBlocked(e.x, e.z, PlacerPadding(e.kind))
        /\ \A k \in DOMAIN placement.count :
              /\ placement.count[k] + placement.dropped[k] <= MaxInstances
              /\ placement.dropped[k] > 0 => placement.count[k] < MaxInstances
        /\ placement.pc = "done" =>
              \A k \in DOMAIN placement.count :
                  placement.count[k] + placement.dropped[k] = MaxInstances

\* generation is over: a tree stands one unit off a wall, where a collectible
\* may not stand, and a bench was dropped at the retry cap
C5_Witness ==
    /\ placement.pc = "done"
    /\ \E e \in placement.placed :
          /\ e.kind = "tree"
          /\ isBlocked(e.x, e.z, WIDE_PADDING)
    /\ placement.dropped["bench"] > 0
    /\ placement.count["collectible"] > 0

(* C9: a tree, bench or flower is dropped only when every candidate sampled *)
(* for it, the last one the cap of 20 allows included, was blocked.         *)
C9_DroppedOnlyWhenAllBlocked ==
    /\ placement.pc # "idle"
    /\ placement.last.outcome = "dropped"
    /\ placement.last.kind \in {"tree", "bench", "flower"}
    => ~placement.last.sawFree

(* C6: once an item is collected no later frame reports it or spawns its    *)
(* particles again, however long the player stays in range: an item is      *)
(* returned by updateCollectibles and bursts at most once, so its score can *)
(* be applied at most once.                                                 *)
C6_CollectedOnce ==
    collect # NoCollect =>
        /\ \A i \in DOMAIN collect.items :
              /\ collect.spawned[i] <= 1
              /\ collect.reported[i] <= 1
              /\ ~collect.items[i].collected =>
                    collect.spawned[i] = 0 /\ collect.reported[i] = 0
              /\ i \in collect.flagged => collect.spawned[i] = 1
        /\ collect.justCollected # 0 =>
              /\ collect.justCollected \in collect.flagged
              /\ collect.reported[collect.justCollected] = 1

\* an item was collected in an earlier frame and the frame just run, with the
\* player still inside its pickup radius, left it alone
C6_Witness ==
    /\ collect # NoCollect
    /\ \E i \in DOMAIN collect.items :
          /\ collect.items[i].collected
          /\ within(collect.items[i].x, collect.items[i].z, player, PICKUP_RADIUS)
          /\ i \notin collect.flagged
          /\ collect.spawned[i] = 1

(* C7: when several untriggered items are in range in one frame, each is    *)
(* flagged in that frame, each is handed to the frame for its score and     *)
(* journal entry and each one's one-shot effect is applied; none is lost to *)
(* another.                                                                 *)
C7_AllTriggersHonoured ==
    collect # NoCollect =>
        /\ \A i \in DOMAIN collect.items :
              collect.items[i].collected =>
                  /\ collect.spawned[i] = 1
                  /\ collect.reported[i] = 1
        /\ \A w \in collect.discovered : collect.announced[w] = 1

(* C8: after every update of a walker that is not culled its position is    *)
(* the interpolation between path[index] and path[(index + 1) mod len] at   *)
(* progress, for the index and progress stored after the update; at         *)
(* progress 0 and index i it stands exactly on path[i].                     *)
C8_PositionIsLerpOfStoredState ==
    (walker # NoWalker /\ walker.visible) =>
        /\ walker.position =
              lerp(walker.path[walker.pathIndex + 1],
                   walker.path[((walker.pathIndex + 1) % Len(walker.path)) + 1],
                   walker.progress)
        /\ walker.progress = 0 =>
              /\ walker.position.x = walker.path[walker.pathIndex + 1].x * ProgressDen
              /\ walker.position.z = walker.path[walker.pathIndex + 1].z * ProgressDen

(* C10: when no WebGL context can be obtained, the error message is shown    *)
(* and nothing further executes: no lighting, city or NPC step runs, no     *)
(* controls are set up, and the animation loop is never started.            *)
C10_FailFastWithoutWebGL ==
    (boot # NoBoot /\ boot.gl = "none") =>
        /\ boot.text = "error"
        /\ boot.ran \subseteq {"detectMobile", "setupScene"}
        /\ boot.listeners = {}
        /\ buildings = {}
        /\ ~boot.scheduled /\ ~boot.loop

(* C11: every waypoint createChallenges creates lies outside every building *)
(* rectangle of the generated city, whatever city the generator produced.   *)
C11_WaypointsOutsideBuildings ==
    boot # NoBoot =>
        \A w \in DOMAIN boot.waypoints :
            ~isBlocked(boot.waypoints[w].x, boot.waypoints[w].z, 0)

(* C12: every point of a generated walker path, the start point and each    *)
(* later waypoint, is outside every building at the default padding, also   *)
(* when a retry budget (30 for the start, 10 per step) has been used up.    *)
C12_PathPointsOutsideBuildings ==
    walker.pc \in {"start", "step", "done"} =>
        \A k \in DOMAIN walker.points :
            ~isBlocked(walker.points[k].x, walker.points[k].z, DEFAULT_PADDING)

(* C13: the collected flag of a collectible and the discovered flag of a    *)
(* waypoint change only from false to true: no step sets a true flag back   *)
(* to false, so each flag changes at most once.                             *)
C13_FlagsIrreversible ==
    [][ collect # NoCollect =>
          /\ \A i \in DOMAIN collect.items :
                collect.items[i].collected => collect'.items[i].collected
          /\ collect.discovered \subseteq collect'.discovered ]_vars

\* a collected item and a discovered waypoint, both now out of range: frames
\* have run on them since without touching the flags
C13_Witness ==
    /\ collect # NoCollect
    /\ \E i \in DOMAIN collect.items :
          /\ collect.items[i].collected
          /\ ~within(collect.items[i].x, collect.items[i].z, player, PICKUP_RADIUS)
    /\ 1 \in collect.discovered
    /\ ~within(0, 0, player, WAYPOINT_DISCOVER_DISTANCE)

Floor(num, den) == num \div den

emitted(w) == w.front + w.back + w.left + w.right

(* C14: a building of height h, width w and depth d gets                    *)
(* 2*floor(h/3)*floor(w/2.5) + 2*floor(h/3)*floor(d/2.5) window transforms  *)
(* minus the slots skipped, a skipped iteration leaving out the two slots   *)
(* it would have filled; width 10, depth 10, height 12 and nothing skipped  *)
(* gives 64.                                                                *)
C14_WindowCount ==
    windowTransforms.pc = "done" =>
        LET b == windowTransforms.b
            floors == Floor(b.height, 3 * Scale)
        IN  /\ emitted(windowTransforms) =
                   2 * floors * Floor(2 * b.width, 5 * Scale)
                 + 2 * floors * Floor(2 * b.depth, 5 * Scale)
                 - 2 * windowTransforms.skipped
            /\ ( /\ b = [height |-> 12 * Scale, width |-> 10 * Scale, depth |-> 10 * Scale]
                 /\ windowTransforms.skipped = 0 )
               => emitted(windowTransforms) = 64

\* the 10 x 10 x 12 building done with three iterations skipped: 58 transforms
C14_Witness ==
    /\ windowTransforms.pc = "done"
    /\ windowTransforms.b = [height |-> 12 * Scale, width |-> 10 * Scale, depth |-> 10 * Scale]
    /\ windowTransforms.skipped = 3
    /\ emitted(windowTransforms) = 58

(* C15: over any sequence of sound-toggle clicks at most one AudioContext   *)
(* is constructed and the ambient sound graph is built at most once.        *)
C15_SingleAudioContext ==
    ambience # NoAmbience => ambience.contexts <= 1 /\ ambience.graphs <= 1

(* C19: with sound on in daytime a bird chirp is eventually played, unless  *)
(* the sound is turned off first.                                           *)
C19_ChirpsNeverStop ==
    (ambience.pc = "modules" /\ ambience.soundOn /\ ~ambience.dayAmountLow)
        ~> (ambience.chirped \/ ~ambience.soundOn)

(* C20: the cycle phase is in [0, 1) after every frame and after every      *)
(* slider input.                                                            *)
C20_PhaseHalfOpen ==
    /\ ambience.pc = "modules" => 0 <= ambience.cycleTime /\ ambience.cycleTime < CycleDen
    /\ ambience.pc = "main.js" => 0 <= ambience.timeOfDay /\ ambience.timeOfDay < TimeDen

(* C16: a walker farther than the cull radius from the player is hidden and *)
(* the update leaves its path index, progress and position as they were;    *)
(* when the player is back within the radius the hidden walker is shown and *)
(* walks on from the index and progress it was frozen at.                   *)
C16_CulledWalkerFrozen ==
    [][ walker # NoWalker =>
          /\ culled(walker, player') =>
                /\ ~walker'.visible
                /\ walker'.pathIndex = walker.pathIndex
                /\ walker'.progress = walker.progress
                /\ walker'.position = walker.position
          /\ (~walker.visible /\ ~culled(walker, player')) =>
                /\ walker'.visible
                /\ \E step \in ProgressSteps :
                     IF walker.progress + step >= ProgressDen
                     THEN /\ walker'.progress = 0
                          /\ walker'.pathIndex = (walker.pathIndex + 1) % Len(walker.path)
                     ELSE /\ walker'.progress = walker.progress + step
                          /\ walker'.pathIndex = walker.pathIndex
                /\ walker'.position =
                     lerp(walker.path[walker.pathIndex + 1],
                          walker.path[((walker.pathIndex + 1) % Len(walker.path)) + 1],
                          walker'.progress) ]_vars

\* a walker frozen in the middle of a segment has just been shown again
C16_Witness ==
    /\ walker # NoWalker
    /\ walker.visible
    /\ walker.resumed
    /\ walker.progress > 3

(* C17: while photo mode is active no frame and no mouse move changes the   *)
(* player's x, z, yaw or pitch, the walker's index or progress, a           *)
(* collectible or waypoint flag, or the cycle phase.                        *)
C17_PhotoModeFreezes ==
    [][ (modes.pc = "play" /\ modes.photo /\ modes'.photo) =>
          /\ player' = player
          /\ modes'.yaw = modes.yaw
          /\ modes'.pitch = modes.pitch
          /\ walker'.pathIndex = walker.pathIndex
          /\ walker'.progress = walker.progress
          /\ collect'.items = collect.items
          /\ collect'.discovered = collect.discovered
          /\ ambience'.cycleTime = ambience.cycleTime ]_vars

(* C18: once meditation is active it eventually becomes inactive, whether   *)
(* or not a key is pressed.                                                 *)
C18_MeditationEnds ==
    (modes.pc = "play" /\ modes.meditation) ~> ~modes.meditation

(* C21: when the full move is blocked, the X-only move is applied *)
(* if it is not blocked, whether or not Z-only is blocked; Z-only is        *)
(* applied only when the full move and X-only are blocked; when all three   *)
(* are blocked the position is unchanged.                                   *)
C21_SlideOrder ==
    attempt # NoAttempt =>
        LET p0 == attempt.p0
            nx == p0.x + attempt.d.x
            nz == p0.z + attempt.d.z
        IN  isBlocked(nx, nz, COLLISION_PADDING) =>
              /\ ~isBlocked(nx, p0.z, COLLISION_PADDING) => player = [x |-> nx, z |-> p0.z]
              /\ player = [x |-> p0.x, z |-> nz] /\ attempt.d.z # 0
                    => isBlocked(nx, p0.z, COLLISION_PADDING) \/ attempt.d.x = 0
              /\ ( /\ isBlocked(nx, p0.z, COLLISION_PADDING)
                   /\ isBlocked(p0.x, nz, COLLISION_PADDING) ) => player = p0

\* the full move runs into a corner both single-axis moves pass: X-only won
C21_Witness ==
    /\ attempt # NoAttempt
    /\ attempt.d.x # 0 /\ attempt.d.z # 0
    /\ isBlocked(attempt.p0.x + attempt.d.x, attempt.p0.z + attempt.d.z, COLLISION_PADDING)
    /\ ~isBlocked(attempt.p0.x + attempt.d.x, attempt.p0.z, COLLISION_PADDING)
    /\ ~isBlocked(attempt.p0.x, attempt.p0.z + attempt.d.z, COLLISION_PADDING)
    /\ player = [x |-> attempt.p0.x + attempt.d.x, z |-> attempt.p0.z]

(* C22: the completion callback has been called once exactly when the intro *)
(* no longer plays, never twice; an update leaves the intro playing only    *)
(* below the duration, so completion comes on the first update at or past   *)
(* it, a skip included; once complete the camera stays at the end of the    *)
(* path.                                                                    *)
C22_CompletesOnce ==
    modes.pc = "cinematic" =>
        /\ modes.completed = IF modes.isPlaying THEN 0 ELSE 1
        /\ modes.isPlaying =>
              \/ modes.cinematicTime < CINEMATIC_DURATION * 100
              \/ modes.skipped /\ modes.cinematicTime = CINEMATIC_DURATION * 100
        /\ ~modes.isPlaying => modes.camera = CINEMATIC_DURATION * 100
        /\ ~modes.returned => ~modes.isPlaying

\* a skipped intro is complete and updateCinematic has been called again,
\* returning false
C22_Witness ==
    /\ modes.pc = "cinematic"
    /\ modes.skipped
    /\ modes.completed = 1
    /\ ~modes.returned
    /\ modes.cinematicTime < CINEMATIC_DURATION * 100 + 10

(* C23: photo mode and meditation are never active together, whatever keys  *)
(* are pressed between frames.                                              *)
C23_ModesExclusive ==
    modes.pc = "play" => ~(modes.photo /\ modes.meditation)

\* meditation was entered after photo mode had been entered and left: both
\* keys have been through their tests
C23_Witness ==
    /\ modes.pc = "play"
    /\ modes.meditation
    /\ modes.transitionProgress > 0
    /\ modes.playerFrozenPos # [x |-> 0, z |-> 0]

(* C24: whenever toastActive is true a toast is on screen with its removal  *)
(* timer pending, and every toast taken off the queue has been displayed,   *)
(* so the queue never stalls; the container element may be absent.          *)
C24_QueueNeverStalls ==
    hud.pc = "toasts" =>
        /\ hud.toastActive => (hud.onScreen # <<>> /\ hud.timer # "none")
        /\ hud.displayed + Len(hud.toastQueue) = hud.pushed

(* C25: the intro-complete callback is never called a second time, however *)
(* the timers of runIntro and the calls of skipIntro interleave, and it has *)
(* been called once when no timer is left.                                  *)
C25_IntroCallbackOnce ==
    hud.pc = "intro" =>
        /\ hud.callbacks <= 1
        /\ (hud.ran /\ hud.chain \in {"none", "done"} /\ hud.skipTimers = 0)
              => hud.callbacks = 1

(* C26: an achievement id is in the unlocked list at most once, its         *)
(* callback or event has fired at most once, and gamestate's score holds    *)
(* one bonus of 50 per unlocked achievement, however often the checks run   *)
(* while its condition stays true.                                          *)
C26_UnlockedOnce ==
    achievements # NoAchievements =>
        /\ \A j, k \in DOMAIN achievements.unlocked :
              achievements.unlocked[j] = achievements.unlocked[k] => j = k
        /\ \A id \in DOMAIN achievements.fired :
              achievements.fired[id] = IF Includes(achievements.unlocked, id) THEN 1 ELSE 0
        /\ achievements.pc = "gamestate.js" =>
              achievements.score =
                  achievements.earned + 50 * Len(achievements.unlocked)

\* gamestate has unlocked 'first_collect' and checked again four times since
\* with its condition still true
C26_Witness ==
    /\ achievements # NoAchievements
    /\ achievements.pc = "gamestate.js"
    /\ Includes(achievements.unlocked, "first_collect")
    /\ Includes(achievements.unlocked, "collector_5")
    /\ achievements.fired["first_collect"] = 1

====
